---- MODULE Spec2Model ----
(***************************************************************************)
(* RTCM 3 stream decoder of hipnuc_ch100_m5stack (RTKLIB rtcm.c/rtcm3.c):  *)
(* the byte framer input_rtcm3, the CRC-24Q parity, the bit codec, the     *)
(* message dispatcher decode_rtcm3 and the message decoders, as a state    *)
(* machine over the control record rtcm_t.                                 *)
(***************************************************************************)
EXTENDS Integers, Naturals, Sequences, FiniteSets, TLC

VARIABLES
    rtcm,   \* the control record rtcm_t
    prev,   \* the control record before the last step
    io,     \* the bytes fed by the last step and what input_rtcm3 returned
    last,   \* what io was before the last step that fed bytes
    nfed,   \* number of steps taken
    clock,  \* host calendar clock <<year, mon, day, hour, min, sec>>
    heap,   \* value of the frame-buffer bytes that were never written
    stream, \* the kind of stream the receiver is connected to
    call,   \* a library function called on its own: arguments and results
    imu,    \* the sketch imu_decode: serial line, parser, queue and task
    sd      \* the sketch record_rtcm: serial line, framer and file

vars == <<rtcm, prev, io, last, nfed, clock, heap, stream, call, imu, sd>>

\* C runs the statements of a block one after the other: the value w of
\* what follows, with the value v of the statement before it computed first
Then(v, w) == <<v, w>>[2]

\* a local variable of a C function: the value v, computed where it is
\* first needed, under the name that F gives it
Let(v, F(_)) == F(v)

\* several local variables that do not depend on each other
Let2(v1, v2, F(_, _)) == F(v1, v2)

Let3(v1, v2, v3, F(_, _, _)) == F(v1, v2, v3)

Let4(v1, v2, v3, v4, F(_, _, _, _)) == F(v1, v2, v3, v4)

Let5(v1, v2, v3, v4, v5, F(_, _, _, _, _)) == F(v1, v2, v3, v4, v5)

Let6(v1, v2, v3, v4, v5, v6, F(_, _, _, _, _, _)) == F(v1, v2, v3, v4, v5, v6)

Let7(v1, v2, v3, v4, v5, v6, v7, F(_, _, _, _, _, _, _)) == F(v1, v2, v3, v4, v5, v6, v7)

Let8(v1, v2, v3, v4, v5, v6, v7, v8, F(_, _, _, _, _, _, _, _)) == F(v1, v2, v3, v4, v5, v6, v7, v8)

Let9(v1, v2, v3, v4, v5, v6, v7, v8, v9, F(_, _, _, _, _, _, _, _, _)) == F(v1, v2, v3, v4, v5, v6, v7, v8, v9)

(* ------------------------------ bit helpers ---------------------------- *)

\* exclusive or of two 4-bit values, bit by bit
Xor4 == [a \in 0..15 |-> [b \in 0..15 |->
           ((a + b) % 2)
         + 2 * (((a \div 2) + (b \div 2)) % 2)
         + 4 * (((a \div 4) + (b \div 4)) % 2)
         + 8 * (((a \div 8) + (b \div 8)) % 2)]]

\* C operator ^ on 8-bit operands
Xor8(a, b) == 16 * Xor4[a \div 16][b \div 16] + Xor4[a % 16][b % 16]

\* C operator ^ on 24-bit operands
Xor24(a, b) ==
    65536 * Xor8(a \div 65536, b \div 65536)
  + 256 * Xor8((a \div 256) % 256, (b \div 256) % 256)
  + Xor8(a % 256, b % 256)

\* 2^n
Pow2(n) ==
    IF n <= 0 THEN 1
    ELSE << 2, 4, 8, 16, 32, 64, 128, 256, 512, 1024, 2048, 4096, 8192, 16384,
            32768, 65536, 131072, 262144, 524288, 1048576, 2097152, 4194304,
            8388608, 16777216, 33554432, 67108864, 134217728, 268435456,
            536870912, 1073741824 >>[n]

\* byte k of the frame buffer; the buffer is kept as the sequence of the
\* bytes written so far (C index k is element k+1), the rest of the array
\* still holds what the allocation left there
ByteOf(buff, k) == IF k < Len(buff) THEN buff[k + 1] ELSE heap

\* bit i (MSB first) of a byte buffer
BitOf(buff, i) == (ByteOf(buff, i \div 8) \div Pow2(7 - (i % 8))) % 2

\* the three bytes from byte k on as one number
window(buff, k) ==
    ByteOf(buff, k) * 65536 + ByteOf(buff, k + 1) * 256 + ByteOf(buff, k + 2)

\* bits i..end-1 (at most 16) of the buffer as a number, most significant
\* first: what the loop bits=(bits<<1)+bit of getbitu collects from them,
\* taken out of the three bytes that hold them
getbituLoop(buff, i, end) ==
    IF i >= end THEN 0
    ELSE (window(buff, i \div 8) \div Pow2(24 - (i % 8) - (end - i)))
         % Pow2(end - i)

\* getbitu as the two 16-bit halves <<hi, lo>> of its 32-bit unsigned
\* accumulator: the shift drops what leaves the 32 bits, so the last 32
\* bits of the field are what stays
getbitu32(buff, pos, len) ==
    << getbituLoop(buff, IF len > 32 THEN pos + len - 32 ELSE pos,
                   IF len > 16 THEN pos + len - 16 ELSE pos),
       getbituLoop(buff, IF len > 16 THEN pos + len - 16 ELSE pos, pos + len) >>

\* the number held as two 16-bit halves
join16(b) == 65536 * b[1] + b[2]

\* extract unsigned bits from a byte buffer
getbitu(buff, pos, len) == join16(getbitu32(buff, pos, len))

\* sign extension of a len-bit field
signext(bits, len) ==
    IF len <= 0 \/ 32 <= len \/ (bits \div Pow2(len - 1)) % 2 = 0
    THEN bits
    ELSE (bits - Pow2(len - 1)) - Pow2(len - 1)

\* the cast (int)bits of the unsigned int held as two 16-bit halves
int32(b) == (IF b[1] >= 32768 THEN b[1] - 65536 ELSE b[1]) * 65536 + b[2]

\* extract signed bits: the accumulator of getbitu cast to int, with the
\* sign of a field of less than 32 bits extended
getbits(buff, pos, len) ==
    IF len <= 0 \/ 32 <= len THEN int32(getbitu32(buff, pos, len))
    ELSE signext(getbitu(buff, pos, len), len)

(* ------------------------------ CRC-24Q -------------------------------- *)

RTCM3PREAMB == 211

tbl_CRC24Q == <<
    0, 8801531, 9098509, 825846, 9692897, 1419802, 1651692, 10452759,
    10584377, 2608578, 2839604, 11344079, 3303384, 11807523, 12104405, 4128302,
    12930697, 4391538, 5217156, 13227903, 5679208, 13690003, 14450021, 5910942,
    6606768, 14844747, 15604413, 6837830, 16197969, 7431594, 8256604, 16494759,
    840169, 9084178, 8783076, 18463, 10434312, 1670131, 1434117, 9678590,
    11358416, 2825259, 2590173, 10602790, 4109873, 12122826, 11821884, 3289031,
    13213536, 5231515, 4409965, 12912278, 5929345, 14431610, 13675660, 5693559,
    6823513, 15618722, 14863188, 6588335, 16513208, 8238147, 7417269, 16212302,
    1680338, 10481449, 9664223, 1391140, 9061683, 788936, 36926, 8838341,
    12067563, 4091408, 3340262, 11844381, 2868234, 11372785, 10555655, 2579964,
    14478683, 5939616, 5650518, 13661357, 5180346, 13190977, 12967607, 4428364,
    8219746, 16457881, 16234863, 7468436, 15633027, 6866552, 6578062, 14816117,
    1405499, 9649856, 10463030, 1698765, 8819930, 55329, 803287, 9047340,
    11858690, 3325945, 4072975, 12086004, 2561507, 10574104, 11387118, 2853909,
    13647026, 5664841, 5958079, 14460228, 4446803, 12949160, 13176670, 5194661,
    7454091, 16249200, 16476294, 8201341, 14834538, 6559633, 6852199, 15647388,
    3360676, 11864927, 12161705, 4185682, 10527045, 2551230, 2782280, 11286707,
    9619101, 1346150, 1577872, 10379115, 73852, 8875143, 9172337, 899466,
    16124205, 7357910, 8182816, 16421083, 6680524, 14918455, 15678145, 6911546,
    5736468, 13747439, 14507289, 5968354, 12873461, 4334094, 5159928, 13170435,
    4167245, 12180150, 11879232, 3346363, 11301036, 2767959, 2532769, 10545498,
    10360692, 1596303, 1360505, 9604738, 913813, 9157998, 8856728, 92259,
    16439492, 8164415, 7343561, 16138546, 6897189, 15692510, 14936872, 6662099,
    5986813, 14488838, 13733104, 5750795, 13156124, 5174247, 4352529, 12855018,
    2810998, 11315341, 10498427, 2522496, 12124823, 4148844, 3397530, 11901793,
    9135439, 862644, 110658, 8912057, 1606574, 10407765, 9590435, 1317464,
    15706879, 6940164, 6651890, 14889737, 8145950, 16384229, 16161043, 7394792,
    5123014, 13133629, 12910283, 4370992, 14535975, 5997020, 5707818, 13718737,
    2504095, 10516836, 11329682, 2796649, 11916158, 3383173, 4130419, 12143240,
    8893606, 129117, 876971, 9121104, 1331783, 9576124, 10389322, 1625009,
    14908182, 6633453, 6925851, 15721184, 7380471, 16175372, 16402682, 8127489,
    4389423, 12891860, 13119266, 5137369, 13704398, 5722165, 6015427, 14517560
>>

\* the loop of rtk_crc24q over the byte sequence b (C index i is element
\* i+1): iterations i..end-1 applied to crc, the range taken in two halves
RECURSIVE crc24qLoop(_, _, _, _)
crc24qLoop(b, i, end, crc) ==
    IF i >= end THEN crc
    ELSE IF end = i + 1
    THEN Xor24((crc % 65536) * 256,
               tbl_CRC24Q[Xor8(crc \div 65536, b[i + 1]) + 1])
    ELSE Let(crc24qLoop(b, i, (i + end) \div 2, crc),
             LAMBDA c : Then(c, crc24qLoop(b, (i + end) \div 2, end, c)))

\* a parity that leaves out the last byte
rtk_crc24q_short(buff, len) ==
    crc24qLoop([k \in 1..len |-> ByteOf(buff, k - 1)], 0, len - 1, 0)

\* a parity that starts from a register of ones
rtk_crc24q_ones(buff, len) ==
    crc24qLoop([k \in 1..len |-> ByteOf(buff, k - 1)], 0, len, 16777215)

\* table-driven CRC-24Q parity of the first len bytes
rtk_crc24q(buff, len) ==
    crc24qLoop([k \in 1..len |-> ByteOf(buff, k - 1)], 0, len, 0)

(* ------------------------------ time ----------------------------------- *)

\* C integer division (truncation toward zero), b > 0
Trunc(a, b) == IF a >= 0 THEN a \div b ELSE -((-a) \div b)

\* gtime_t: whole seconds since 1970 and the fraction, kept in milliseconds
GTime(t, ms) == [time |-> t, sec |-> ms]

time0 == GTime(0, 0)

doy == <<1, 32, 60, 91, 121, 152, 182, 213, 244, 274, 305, 335>>

\* calendar day/time <<year, mon, day, hour, min, sec>> to time
epoch2time(ep) ==
    IF ep[1] < 1970 \/ 2099 < ep[1] \/ ep[2] < 1 \/ 12 < ep[2] THEN time0
    ELSE Let(        (ep[1] - 1970) * 365 + Trunc(ep[1] - 1969, 4) + doy[ep[2]]
                     + ep[3] - 2 + (IF ep[1] % 4 = 0 /\ ep[2] >= 3 THEN 1 ELSE 0),
             LAMBDA days :
            GTime(days * 86400 + ep[4] * 3600 + ep[5] * 60 + ep[6], 0))

gpst0 == <<1980, 1, 6, 0, 0, 0>>

bdt0 == <<2006, 1, 1, 0, 0, 0>>

\* leap seconds <<y, m, d, h, m, s, utc-gpst>>, newest first
leaps == <<
    <<2017, 1, 1, 0, 0, 0, -18>>, <<2015, 7, 1, 0, 0, 0, -17>>,
    <<2012, 7, 1, 0, 0, 0, -16>>, <<2009, 1, 1, 0, 0, 0, -15>>,
    <<2006, 1, 1, 0, 0, 0, -14>>, <<1999, 1, 1, 0, 0, 0, -13>>,
    <<1997, 7, 1, 0, 0, 0, -12>>, <<1996, 1, 1, 0, 0, 0, -11>>,
    <<1994, 7, 1, 0, 0, 0, -10>>, <<1993, 7, 1, 0, 0, 0, -9>>,
    <<1992, 7, 1, 0, 0, 0, -8>>, <<1991, 1, 1, 0, 0, 0, -7>>,
    <<1990, 1, 1, 0, 0, 0, -6>>, <<1988, 1, 1, 0, 0, 0, -5>>,
    <<1985, 7, 1, 0, 0, 0, -4>>, <<1983, 7, 1, 0, 0, 0, -3>>,
    <<1982, 7, 1, 0, 0, 0, -2>>, <<1981, 7, 1, 0, 0, 0, -1>> >>

\* t1 - t2 in milliseconds; the code holds it in a double and only
\* compares it with thresholds of at most a week, so a difference of more
\* than 2000000 s is kept as 2000000 s with its sign
timediff(t1, t2) ==
    Let(     t1.time - t2.time,
        LAMBDA d :
    IF d > 2000000 THEN 2000000000
    ELSE IF d < -2000000 THEN -2000000000
    ELSE d * 1000 + t1.sec - t2.sec)

\* add ms milliseconds to t, renormalising the fraction into [0, 1) s
timeadd(t, ms) ==
    Let(      t.sec + ms,
        LAMBDA s :
        Let(  s \div 1000,
        LAMBDA tt :
       GTime(t.time + tt, s - tt * 1000)))

\* sec seconds and ms milliseconds as <<weeks, the rest in ms>>
weektow(sec, ms) ==
    << Trunc(sec, 604800), (sec - Trunc(sec, 604800) * 604800) * 1000 + ms >>

\* time to <<week, time of week in ms>> of gps time
time2gpst(t) == weektow(t.time - epoch2time(gpst0).time, t.sec)

\* the time ms milliseconds into week week counted from t0
weektime(t0, week, ms) ==
    GTime(t0.time + 604800 * week + Trunc(ms, 1000),
          ms - Trunc(ms, 1000) * 1000)

\* gps week and time of week (ms) to time
gpst2time(week, ms) ==
    weektime(epoch2time(gpst0), week,
             IF Trunc(ms, 1000) < -1000000000 \/ 1000000000 < Trunc(ms, 1000)
             THEN 0 ELSE ms)

\* the least number of a set of positive numbers; 0 if it is empty
least(S) == IF S = {} THEN 0 ELSE CHOOSE i \in S : \A j \in S : i <= j

\* the first entry of leaps (the loop runs from the newest) that time t,
\* moved by sign times the entry's leap seconds, is not before; 0 if none
leapindex(t, sign) ==
    least({i \in 1..Len(leaps) :
              timediff(timeadd(t, sign * leaps[i][7] * 1000),
                       epoch2time(leaps[i])) >= 0})

\* t moved by sign times the leap seconds of entry i of leaps, if any
leapadd(t, i, sign) ==
    IF i = 0 THEN t ELSE timeadd(t, sign * leaps[i][7] * 1000)

\* utc to gpstime
utc2gpst(t) == leapadd(t, leapindex(t, 0), -1)

\* gpstime to utc
gpst2utc(t) == leapadd(t, leapindex(t, 1), 1)

\* current time in utc: the host calendar clock (all zero when the clock
\* cannot be read) through epoch2time, with a zero time offset
timeget == timeadd(epoch2time(clock), 0)

(* ------------------------ satellites and codes ------------------------- *)

\* satellite systems in the order of their blocks of satellite numbers
SYSTEMS == <<"GPS", "GLO", "GAL", "QZS", "CMP", "LEO", "SBS">>

\* PRN range <<min, max>> of each system (rtklib.h, all systems enabled)
PRNRANGE == [GPS |-> <<1, 32>>, GLO |-> <<1, 27>>, GAL |-> <<1, 30>>,
             QZS |-> <<193, 199>>, CMP |-> <<1, 35>>, LEO |-> <<1, 10>>,
             SBS |-> <<120, 142>>]

NSAT(sys) == PRNRANGE[sys][2] - PRNRANGE[sys][1] + 1

\* number of satellite numbers in the blocks before block k
RECURSIVE SatBase(_)
SatBase(k) == IF k <= 1 THEN 0 ELSE SatBase(k - 1) + NSAT(SYSTEMS[k - 1])

MAXSAT == SatBase(Len(SYSTEMS) + 1)

MAXPRNGLO == PRNRANGE["GLO"][2]

\* number of frequencies and of extended observation slots (rtklib.h)
NFREQ == 3

NEXOBS == 1

\* capacity of the observation buffer
MAXOBS == 3

\* satellite system + prn to satellite number (0: error)
satno(sys, prn) ==
    IF prn <= 0 THEN 0
    ELSE IF \A k \in 1..Len(SYSTEMS) : SYSTEMS[k] # sys THEN 0
    ELSE IF prn < PRNRANGE[sys][1] \/ PRNRANGE[sys][2] < prn THEN 0
    ELSE SatBase(CHOOSE k \in 1..Len(SYSTEMS) : SYSTEMS[k] = sys)
         + prn - PRNRANGE[sys][1] + 1

\* observation code strings, C index k is element k+1
obscodes == <<
    "",   "1C", "1P", "1W", "1Y", "1M", "1N", "1S", "1L", "1E",
    "1A", "1B", "1X", "1Z", "2C", "2D", "2S", "2L", "2X", "2P",
    "2W", "2Y", "2M", "2N", "5I", "5Q", "5X", "7I", "7Q", "7X",
    "6A", "6B", "6C", "6X", "6Z", "6S", "6L", "8L", "8Q", "8X",
    "2I", "2Q", "6I", "6Q", "3I", "3Q", "3X", "1I", "1Q", "" >>

\* frequency band of each observation code
obsfreqs == <<
    0, 1, 1, 1, 1, 1, 1, 1, 1, 1,
    1, 1, 1, 1, 2, 2, 2, 2, 2, 2,
    2, 2, 2, 2, 3, 3, 3, 5, 5, 5,
    4, 4, 4, 4, 4, 4, 4, 6, 6, 6,
    2, 2, 4, 4, 3, 3, 3, 1, 1, 0 >>

\* obs type string to <<code, freq>>; the scan stops at the first empty
\* string after index 0
obs2code(obs) ==
    Let(     {k \in 1..(Len(obscodes) - 1) :
                 obscodes[k + 1] = "" \/ obscodes[k + 1] = obs},
        LAMBDA stop :
        Let( CHOOSE i \in stop : \A k \in stop : i <= k,
        LAMBDA i :
       IF obscodes[i + 1] = "" THEN <<0, 0>> ELSE <<i, obsfreqs[i + 1]>>))

(* --------------------------- control record ---------------------------- *)

SLOTS == 0..(NFREQ + NEXOBS - 1)

\* pseudorange kept as its two terms: units of 0.02 m and whole
\* light-milliseconds
P0 == [u |-> 0, amb |-> 0]

\* carrier phase kept as its terms: the pseudorange part and the adjusted
\* phase-range difference in 1/1000 cycle
L0 == [u |-> 0, amb |-> 0, cp |-> 0]

data0 == [time |-> time0, sat |-> 0,
          P |-> [j \in SLOTS |-> P0], L |-> [j \in SLOTS |-> L0],
          D |-> [j \in SLOTS |-> 0], SNR |-> [j \in SLOTS |-> 0],
          LLI |-> [j \in SLOTS |-> 0], code |-> [j \in SLOTS |-> 0]]

\* eph_t eph0={0,-1,-1}: sat 0, iode -1, iodc -1, everything else zero.
\* The model carries the header fields of the broadcast ephemeris and
\* a few of its orbit terms; sqrtA, 32 bits wide, is kept as two halves.
eph0 == [sat |-> 0, iode |-> -1, iodc |-> -1, sva |-> 0, svh |-> 0,
         week |-> 0, code |-> 0, flag |-> 0, toe |-> time0, toc |-> time0,
         ttr |-> time0, toes |-> 0, fit |-> 0, idot |-> 0, crs |-> 0,
         sqrtA |-> <<0, 0>>, tgd |-> <<0, 0>>]

\* geph_t geph0={0,-1}: sat 0, iode -1, everything else zero
geph0 == [sat |-> 0, iode |-> -1, frq |-> 0, svh |-> 0, toe |-> time0,
          tof |-> time0, gamn |-> 0, taun |-> 0]

\* highest observation code number: obscodes has one entry per code, the
\* empty entry 0 and a closing empty entry
MAXCODE == Len(obscodes) - 2

\* ssr_t ssr0={{{0}}}
ssr0 == [t0 |-> [k \in 0..5 |-> time0], udi |-> [k \in 0..5 |-> 0],
         iod |-> [k \in 0..5 |-> 0], iode |-> 0, iodcrc |-> 0, ura |-> 0,
         refd |-> 0, deph |-> <<0, 0, 0>>, ddeph |-> <<0, 0, 0>>,
         dclk |-> <<0, 0, 0>>, hrclk |-> 0,
         cbias |-> [k \in 0..(MAXCODE - 1) |-> 0], update |-> 0]

\* station parameters as init_rtcm leaves them; a string is kept as the
\* bytes of its array from index 0 to the highest index written so far; a
\* coordinate, 38 bits wide, is kept as <<high 16, middle 16, low 6>> bits
sta0 == [antdes |-> <<0>>, antsno |-> <<0>>, rectype |-> <<0>>, recver |-> <<0>>,
         recsno |-> <<0>>, antsetup |-> 0, itrf |-> 0, deltype |-> 0,
         pos |-> <<<<0, 0, 0>>, <<0, 0, 0>>, <<0, 0, 0>>>>,
         del |-> <<0, 0, 0>>, hgt |-> 0]

\* An array of the control record whose elements all start with the same
\* value dflt is kept as the map of the elements that differ from dflt.
\* Element k of the array
Get(tab, k, dflt) == IF k \in DOMAIN tab THEN tab[k] ELSE dflt

\* the array with v stored in element k
Put(tab, k, v, dflt) ==
    IF v = dflt THEN [x \in DOMAIN tab \ {k} |-> tab[x]]
    ELSE (k :> v) @@ tab

\* the tokens of the option string that the RTCM 3 decoder looks at:
\* -EPHALL, -RT_INP, -STA=id (<<>> when absent, <<id>> when present) and,
\* in the order they are written, the code options -GLxx, -RLxx, -ELxx,
\* -JLxx, -SLxx and -CLxx: the system and the one or two characters that
\* sscanf reads after the L
NoOpt == [EPHALL |-> FALSE, RT_INP |-> FALSE, STA |-> <<>>, codes |-> <<>>]

\* initialize rtcm control; the frame buffer is not touched by init_rtcm.
\* The arrays over the satellites (ssr, cp, lock, nav.eph, nav.geph) and
\* the message counters nmsg3 start with every element at its initial
\* value: ssr0, 0, 0, eph0, geph0 and 0
init_rtcm ==
    [staid |-> 0, time |-> time0, sta |-> sta0,
     ssr |-> <<>>,
     opt |-> NoOpt, obsflag |-> 0, ephsat |-> 0,
     cp |-> <<>>, lock |-> <<>>,
     nbyte |-> 0, len |-> 0, buff |-> <<>>,
     nmsg3 |-> <<>>,
     obs |-> [n |-> 0, data |-> [k \in 0..(MAXOBS - 1) |-> data0]],
     nav |-> [eph |-> <<>>, geph |-> <<>>]]

\* the ssr correction of satellite sat, and the control record with it set
ssrat(r, sat) == Get(r.ssr, sat, ssr0)

setssr(r, sat, s) == [r EXCEPT !.ssr = Put(@, sat, s, ssr0)]

\* result of a decoder: the control record it leaves and its return value
Ret(r, ret) == [r |-> r, ret |-> ret]

(* ------------------------ decoder primitives --------------------------- *)

\* adjust carrier-phase rollover; cp in 1/1000 cycle
adjcp(r, sat, freq, cp) ==
    Let(      Get(r.cp, <<sat, freq>>, 0),
        LAMBDA p :
        Let(  IF p = 0 THEN cp
              ELSE IF cp < p - 750000 THEN cp + 1500000
              ELSE IF cp > p + 750000 THEN cp - 1500000
              ELSE cp,
        LAMBDA c1 :
       [r |-> [r EXCEPT !.cp = Put(@, <<sat, freq>>, c1, 0)], cp |-> c1]))

\* a loss reported also when the lock indicator did not change
lossoflock_le(r, sat, freq, lock) ==
    Let(       Get(r.lock, <<sat, freq>>, 0),
        LAMBDA old :
       [r |-> [r EXCEPT !.lock = Put(@, <<sat, freq>>, lock % 65536, 0)],
        lli |-> IF lock <= old THEN 1 ELSE 0])

\* loss-of-lock indicator
lossoflock(r, sat, freq, lock) ==
    Let(       Get(r.lock, <<sat, freq>>, 0),
        LAMBDA old :
        Let(   IF (lock = 0 /\ old = 0) \/ lock < old THEN 1 ELSE 0,
        LAMBDA lli :
       [r |-> [r EXCEPT !.lock = Put(@, <<sat, freq>>, lock % 65536, 0)],
        lli |-> lli]))

\* s/n ratio; snr in units of 0.25 dBHz, result in units of 0.25 dBHz
snratio(q) == IF q <= 0 \/ 1022 <= q THEN 0 ELSE q % 256

\* obsindex without the search for the satellite's entry
obsindex_nosearch(obs, time, sat) ==
    IF obs.n >= MAXOBS THEN [obs |-> obs, index |-> -1]
    ELSE [obs |-> [n |-> obs.n + 1,
                   data |-> [obs.data EXCEPT ![obs.n] =
                                [data0 EXCEPT !.time = time, !.sat = sat]]],
          index |-> obs.n]

\* get observation data index: <<obs buffer, index>>
obsindex(obs, time, sat) ==
    Let(       {i \in 0..(obs.n - 1) : obs.data[i].sat = sat},
        LAMBDA hit :
    IF hit # {} THEN [obs |-> obs, index |-> CHOOSE i \in hit : \A k \in hit : i <= k]
    ELSE IF obs.n >= MAXOBS THEN [obs |-> obs, index |-> -1]
    ELSE [obs |-> [n |-> obs.n + 1,
                   data |-> [obs.data EXCEPT ![obs.n] =
                                [data0 EXCEPT !.time = time, !.sat = sat]]],
          index |-> obs.n])

\* test_staid without the reset of the station id on a mismatch
test_staid_keep(r, staid) ==
    IF r.opt.STA # <<>> /\ staid # r.opt.STA[1] THEN Ret(r, 0)
    ELSE IF r.staid = 0 \/ r.obsflag # 0 THEN Ret([r EXCEPT !.staid = staid], 1)
    ELSE IF staid # r.staid THEN Ret(r, 0)
    ELSE Ret(r, 1)

\* a test that takes a new station id only at the start of a batch and
\* holds 0 as an id like any other
test_staid_batch(r, staid) ==
    IF r.opt.STA # <<>> /\ staid # r.opt.STA[1] THEN Ret(r, 0)
    ELSE IF r.obsflag # 0 THEN Ret([r EXCEPT !.staid = staid], 1)
    ELSE IF staid # r.staid THEN Ret([r EXCEPT !.staid = 0], 0)
    ELSE Ret(r, 1)

\* test station id consistency: <<control record, 1:ok 0:error>>
test_staid(r, staid) ==
    IF r.opt.STA # <<>> /\ staid # r.opt.STA[1] THEN Ret(r, 0)
    ELSE IF r.staid = 0 \/ r.obsflag # 0 THEN Ret([r EXCEPT !.staid = staid], 1)
    ELSE IF staid # r.staid THEN Ret([r EXCEPT !.staid = 0], 0)
    ELSE Ret(r, 1)

\* t moved by a whole period to within half a period of the reference
nearest(t, ref, period) ==
    IF t < ref - period \div 2 THEN t + period
    ELSE IF t > ref + period \div 2 THEN t - period
    ELSE t

\* the time of week put in the week of the buffered epoch as it is
adjweek_sameweek(r, tow) ==
    Let(time2gpst(IF r.time.time = 0 THEN utc2gpst(timeget) ELSE r.time),
        LAMBDA g : [r EXCEPT !.time = gpst2time(g[1], tow)])

\* adjust weekly rollover of gps time; tow in ms
adjweek(r, tow) ==
    Let(time2gpst(IF r.time.time = 0 THEN utc2gpst(timeget) ELSE r.time),
        LAMBDA g :
            [r EXCEPT !.time = gpst2time(g[1], nearest(tow, g[2], 604800000))])

\* C fmod(x, y) for y > 0: the remainder has the sign of x
fmod(x, y) == x - Trunc(x, y) * y

\* adjust daily rollover of glonass time; tod in ms
adjday_glot(r, tod) ==
    Let(time2gpst(timeadd(gpst2utc(IF r.time.time = 0 THEN utc2gpst(timeget)
                                   ELSE r.time), 10800000)),
        LAMBDA g :
            [r EXCEPT !.time =
                utc2gpst(timeadd(
                    gpst2time(g[1], g[2] - fmod(g[2], 86400000)
                                    + nearest(tod, fmod(g[2], 86400000), 86400000)),
                    -10800000))])

\* the test without the comparison of the epoch times
newepoch_flagonly(r) ==
    IF r.obsflag # 0 THEN [r EXCEPT !.obs.n = 0, !.obsflag = 0] ELSE r

\* the test made before every observation is stored: a terminated batch
\* or a new epoch empties the observation buffer
newepoch(r) ==
    IF r.obsflag # 0 \/ timediff(r.obs.data[0].time, r.time) # 0
    THEN [r EXCEPT !.obs.n = 0, !.obsflag = 0]
    ELSE r

(* -------------------- legacy observation messages ---------------------- *)

\* observation code number of a code string (CODE_L1C, CODE_L1P, ...)
CODE(str) == obs2code(str)[1]

\* carrier frequencies of lam_carr (L1, L2, L5, L6, L7, L8) in units of
\* 500 Hz; the model keeps the frequency in place of the wave length
lam_carr == <<3150840, 2455200, 2352900, 2557500, 2414280, 2383590>>

\* glonass carrier frequency (units of 500 Hz) of band k and channel fn
freq_glo(k, fn) == IF k = 2 THEN 2492000 + 875 * fn ELSE 3204000 + 1125 * fn

\* ppr*0.0005/lam: a phase-range difference of ppr*0.0005 m on a carrier
\* of f*500 Hz, in 1/1000 cycle (c = 299792458 m/s)
cycles(ppr, f) == Trunc(ppr * ((f * 10) \div 11992), 1000)

\* L1 observables of one satellite (1002, 1004, 1010, 1012)
storeL1(r, index, sat, pu, au, ppr1, f, lock1, cnr1, code) ==
    Let(      adjcp(r, sat, 0, cycles(ppr1, f)),
        LAMBDA a :
        Let(  IF ppr1 # -524288
              THEN [a.r EXCEPT !.obs.data[index].P[0] = [u |-> pu, amb |-> au],
                               !.obs.data[index].L[0] =
                                   [u |-> pu, amb |-> au, cp |-> a.cp]]
              ELSE r,
        LAMBDA r1 :
        Let(  lossoflock(r1, sat, 0, lock1),
        LAMBDA l :
       [l.r EXCEPT !.obs.data[index].LLI[0] = l.lli,
                   !.obs.data[index].SNR[0] = snratio(cnr1),
                   !.obs.data[index].code[0] = code])))

\* L2 observables of one satellite (1004, 1012)
storeL2(r, index, sat, pu, au, pr21, ppr2, f, lock2, cnr2, code) ==
    Let(      IF pr21 # -8192
              THEN [r EXCEPT !.obs.data[index].P[1] = [u |-> pu + pr21, amb |-> au]]
              ELSE r,
        LAMBDA r1 :
        Let(  adjcp(r1, sat, 1, cycles(ppr2, f)),
        LAMBDA a :
        Let(  IF ppr2 # -524288
              THEN [a.r EXCEPT !.obs.data[index].L[1] =
                                   [u |-> pu, amb |-> au, cp |-> a.cp]]
              ELSE r1,
        LAMBDA r2 :
        Let(  lossoflock(r2, sat, 1, lock2),
        LAMBDA l :
       [l.r EXCEPT !.obs.data[index].LLI[1] = l.lli,
                   !.obs.data[index].SNR[1] = snratio(cnr2),
                   !.obs.data[index].code[1] = code]))))

\* decode type 1001-1004 message header: nsat is -1 on error
decode_head1001(r) ==
    Let(     36,
        LAMBDA i :
    IF i + 52 <= r.len * 8 THEN
        Let4(        getbitu(r.buff, i, 12),
                     getbitu(r.buff, i + 12, 30),
                     getbitu(r.buff, i + 42, 1),
                     getbitu(r.buff, i + 43, 5),
            LAMBDA staid, tow, sync, nsat :
            Let(     test_staid(r, staid),
            LAMBDA t :
           IF t.ret = 0 THEN [r |-> t.r, nsat |-> -1, sync |-> sync]
           ELSE [r |-> adjweek(t.r, tow), nsat |-> nsat, sync |-> sync]))
    ELSE [r |-> r, nsat |-> -1, sync |-> 0])

\* decode type 1001: L1-only gps rtk observation
decode_type1001(r) ==
    Let(     decode_head1001(r),
        LAMBDA h :
    IF h.nsat < 0 THEN Ret(h.r, -1)
    ELSE Ret([h.r EXCEPT !.obsflag = 1 - h.sync], IF h.sync # 0 THEN 0 ELSE 1))

\* one satellite of type 1002, read at bit i
sat1002(r, i) ==
    Let7(        getbitu(r.buff, i, 6),
                 getbitu(r.buff, i + 6, 1),
                 getbitu(r.buff, i + 7, 24),
                 getbits(r.buff, i + 31, 20),
                 getbitu(r.buff, i + 51, 7),
                 getbitu(r.buff, i + 58, 8),
                 getbitu(r.buff, i + 66, 8),
        LAMBDA prn, code, pr1, ppr1, lock1, amb, cnr1 :
        Let2(    IF prn < 40 THEN satno("GPS", prn) ELSE satno("SBS", prn + 80),
                 newepoch(r),
        LAMBDA sat, r1 :
        Let(     obsindex(r1.obs, r1.time, sat),
        LAMBDA o :
       IF sat = 0 THEN r
       ELSE IF o.index < 0 THEN r1
       ELSE storeL1([r1 EXCEPT !.obs = o.obs], o.index, sat, pr1, amb, ppr1,
                    lam_carr[1], lock1, cnr1,
                    IF code # 0 THEN CODE("1P") ELSE CODE("1C")))))

RECURSIVE loop1002(_, _, _, _)
loop1002(r, nsat, j, i) ==
    IF j < nsat /\ r.obs.n < MAXOBS /\ i + 74 <= r.len * 8
    THEN loop1002(sat1002(r, i), nsat, j + 1, i + 74)
    ELSE r

\* decode type 1002: extended L1-only gps rtk observables
decode_type1002(r) ==
    Let(     decode_head1001(r),
        LAMBDA h :
    IF h.nsat < 0 THEN Ret(h.r, -1)
    ELSE Ret(loop1002(h.r, h.nsat, 0, 88), IF h.sync # 0 THEN 0 ELSE 1))

\* decode type 1003: L1&L2 gps rtk observables
decode_type1003(r) ==
    Let(     decode_head1001(r),
        LAMBDA h :
    IF h.nsat < 0 THEN Ret(h.r, -1)
    ELSE Ret([h.r EXCEPT !.obsflag = 1 - h.sync], IF h.sync # 0 THEN 0 ELSE 1))

L2codes == <<CODE("2X"), CODE("2P"), CODE("2D"), CODE("2W")>>

\* one satellite of type 1004, read at bit i
sat1004(r, i) ==
    Let9(        getbitu(r.buff, i, 6),
                 getbitu(r.buff, i + 6, 1),
                 getbitu(r.buff, i + 7, 24),
                 getbits(r.buff, i + 31, 20),
                 getbitu(r.buff, i + 51, 7),
                 getbitu(r.buff, i + 58, 8),
                 getbitu(r.buff, i + 66, 8),
                 getbitu(r.buff, i + 74, 2),
                 getbits(r.buff, i + 76, 14),
        LAMBDA prn, code1, pr1, ppr1, lock1, amb, cnr1, code2, pr21 :
        Let5(    getbits(r.buff, i + 90, 20),
                 getbitu(r.buff, i + 110, 7),
                 getbitu(r.buff, i + 117, 8),
                 IF prn < 40 THEN satno("GPS", prn) ELSE satno("SBS", prn + 80),
                 newepoch(r),
        LAMBDA ppr2, lock2, cnr2, sat, r1 :
        Let(     obsindex(r1.obs, r1.time, sat),
        LAMBDA o :
       IF sat = 0 THEN r
       ELSE IF o.index < 0 THEN r1
       ELSE storeL2(storeL1([r1 EXCEPT !.obs = o.obs], o.index, sat, pr1, amb,
                            ppr1, lam_carr[1], lock1, cnr1,
                            IF code1 # 0 THEN CODE("1P") ELSE CODE("1C")),
                    o.index, sat, pr1, amb, pr21, ppr2, lam_carr[2], lock2,
                    cnr2, L2codes[code2 + 1]))))

RECURSIVE loop1004(_, _, _, _)
loop1004(r, nsat, j, i) ==
    IF j < nsat /\ r.obs.n < MAXOBS /\ i + 125 <= r.len * 8
    THEN loop1004(sat1004(r, i), nsat, j + 1, i + 125)
    ELSE r

\* decode type 1004: extended L1&L2 gps rtk observables
decode_type1004(r) ==
    Let(     decode_head1001(r),
        LAMBDA h :
    IF h.nsat < 0 THEN Ret(h.r, -1)
    ELSE Ret([loop1004(h.r, h.nsat, 0, 88) EXCEPT !.obsflag = 1 - h.sync],
             IF h.sync # 0 THEN 0 ELSE 1))

\* decode type 1009-1012 message header: nsat is -1 on error
decode_head1009(r) ==
    Let(     36,
        LAMBDA i :
    IF i + 49 <= r.len * 8 THEN
        Let4(        getbitu(r.buff, i, 12),
                     getbitu(r.buff, i + 12, 27),
                     getbitu(r.buff, i + 39, 1),
                     getbitu(r.buff, i + 40, 5),
            LAMBDA staid, tod, sync, nsat :
            Let(     test_staid(r, staid),
            LAMBDA t :
           IF t.ret = 0 THEN [r |-> t.r, nsat |-> -1, sync |-> sync]
           ELSE [r |-> adjday_glot(t.r, tod), nsat |-> nsat, sync |-> sync]))
    ELSE [r |-> r, nsat |-> -1, sync |-> 0])

\* decode type 1009: L1-only glonass rtk observables
decode_type1009(r) ==
    Let(     decode_head1009(r),
        LAMBDA h :
    IF h.nsat < 0 THEN Ret(h.r, -1)
    ELSE Ret([h.r EXCEPT !.obsflag = 1 - h.sync], IF h.sync # 0 THEN 0 ELSE 1))

\* one satellite of type 1010, read at bit i
sat1010(r, i) ==
    Let8(        getbitu(r.buff, i, 6),
                 getbitu(r.buff, i + 6, 1),
                 getbitu(r.buff, i + 7, 5),
                 getbitu(r.buff, i + 12, 25),
                 getbits(r.buff, i + 37, 20),
                 getbitu(r.buff, i + 57, 7),
                 getbitu(r.buff, i + 64, 7),
                 getbitu(r.buff, i + 71, 8),
        LAMBDA prn, code, freq, pr1, ppr1, lock1, amb, cnr1 :
        Let2(    satno("GLO", prn),
                 newepoch(r),
        LAMBDA sat, r1 :
        Let(     obsindex(r1.obs, r1.time, sat),
        LAMBDA o :
       IF sat = 0 THEN r
       ELSE IF o.index < 0 THEN r1
       ELSE storeL1([r1 EXCEPT !.obs = o.obs], o.index, sat, pr1, 2 * amb, ppr1,
                    freq_glo(1, freq - 7), lock1, cnr1,
                    IF code # 0 THEN CODE("1P") ELSE CODE("1C")))))

RECURSIVE loop1010(_, _, _, _)
loop1010(r, nsat, j, i) ==
    IF j < nsat /\ r.obs.n < MAXOBS /\ i + 79 <= r.len * 8
    THEN loop1010(sat1010(r, i), nsat, j + 1, i + 79)
    ELSE r

\* decode type 1010: extended L1-only glonass rtk observables
decode_type1010(r) ==
    Let(     decode_head1009(r),
        LAMBDA h :
    IF h.nsat < 0 THEN Ret(h.r, -1)
    ELSE Ret(loop1010(h.r, h.nsat, 0, 85), IF h.sync # 0 THEN 0 ELSE 1))

\* decode type 1011: L1&L2 glonass rtk observables
decode_type1011(r) ==
    Let(     decode_head1009(r),
        LAMBDA h :
    IF h.nsat < 0 THEN Ret(h.r, -1)
    ELSE Ret([h.r EXCEPT !.obsflag = 1 - h.sync], IF h.sync # 0 THEN 0 ELSE 1))

\* one satellite of type 1012, read at bit i
sat1012(r, i) ==
    Let9(        getbitu(r.buff, i, 6),
                 getbitu(r.buff, i + 6, 1),
                 getbitu(r.buff, i + 7, 5),
                 getbitu(r.buff, i + 12, 25),
                 getbits(r.buff, i + 37, 20),
                 getbitu(r.buff, i + 57, 7),
                 getbitu(r.buff, i + 64, 7),
                 getbitu(r.buff, i + 71, 8),
                 getbitu(r.buff, i + 79, 2),
        LAMBDA prn, code1, freq, pr1, ppr1, lock1, amb, cnr1, code2 :
        Let6(    getbits(r.buff, i + 81, 14),
                 getbits(r.buff, i + 95, 20),
                 getbitu(r.buff, i + 115, 7),
                 getbitu(r.buff, i + 122, 8),
                 satno("GLO", prn),
                 newepoch(r),
        LAMBDA pr21, ppr2, lock2, cnr2, sat, r1 :
        Let(     obsindex(r1.obs, r1.time, sat),
        LAMBDA o :
       IF sat = 0 THEN r
       ELSE IF o.index < 0 THEN r1
       ELSE storeL2(storeL1([r1 EXCEPT !.obs = o.obs], o.index, sat, pr1,
                            2 * amb, ppr1, freq_glo(1, freq - 7), lock1, cnr1,
                            IF code1 # 0 THEN CODE("1P") ELSE CODE("1C")),
                    o.index, sat, pr1, 2 * amb, pr21, ppr2,
                    freq_glo(2, freq - 7), lock2, cnr2,
                    IF code2 # 0 THEN CODE("2P") ELSE CODE("2C")))))

RECURSIVE loop1012(_, _, _, _)
loop1012(r, nsat, j, i) ==
    IF j < nsat /\ r.obs.n < MAXOBS /\ i + 130 <= r.len * 8
    THEN loop1012(sat1012(r, i), nsat, j + 1, i + 130)
    ELSE r

\* decode type 1012: extended L1&L2 glonass rtk observables
decode_type1012(r) ==
    Let(     decode_head1009(r),
        LAMBDA h :
    IF h.nsat < 0 THEN Ret(h.r, -1)
    ELSE Ret([loop1012(h.r, h.nsat, 0, 85) EXCEPT !.obsflag = 1 - h.sync],
             IF h.sync # 0 THEN 0 ELSE 1))

(* ------------------------- station messages ---------------------------- *)

\* 38-bit signed coordinate as <<high 16, middle 16, low 6>> bits
getbits_38(buff, pos) ==
    Let(     getbitu32(buff, pos, 32),
        LAMBDA w :
                                         <<w[1], w[2], getbitu(buff, pos + 32, 6)>>)

\* decode type 1005: stationary rtk reference station arp
decode_type1005(r) ==
    Let(     36,
        LAMBDA i :
    IF i + 140 = r.len * 8 THEN
        Let3(        getbitu(r.buff, i, 12),
                     getbitu(r.buff, i + 12, 6),
                     <<getbits_38(r.buff, i + 22), getbits_38(r.buff, i + 62),
                       getbits_38(r.buff, i + 102)>>,
            LAMBDA staid, itrf, rr :
            Let(     test_staid(r, staid),
            LAMBDA t :
           IF t.ret = 0 THEN Ret(t.r, -1)
           ELSE Ret([t.r EXCEPT !.sta.deltype = 0, !.sta.pos = rr,
                                !.sta.del = <<0, 0, 0>>, !.sta.hgt = 0,
                                !.sta.itrf = itrf], 5)))
    ELSE Ret(r, -1))

\* decode type 1006: stationary rtk reference station arp with height
decode_type1006(r) ==
    Let(     36,
        LAMBDA i :
    IF i + 156 <= r.len * 8 THEN
        Let4(        getbitu(r.buff, i, 12),
                     getbitu(r.buff, i + 12, 6),
                     <<getbits_38(r.buff, i + 22), getbits_38(r.buff, i + 62),
                       getbits_38(r.buff, i + 102)>>,
                     getbitu(r.buff, i + 140, 16),
            LAMBDA staid, itrf, rr, anth :
            Let(     test_staid(r, staid),
            LAMBDA t :
           IF t.ret = 0 THEN Ret(t.r, -1)
           ELSE Ret([t.r EXCEPT !.sta.deltype = 1, !.sta.pos = rr,
                                !.sta.del = <<0, 0, 0>>, !.sta.hgt = anth,
                                !.sta.itrf = itrf], 5)))
    ELSE Ret(r, -1))

\* the characters a decoder collects from a length-n descriptor at bit i:
\* at most 31 of them, into a zero-filled char[32]
RECURSIVE getstr(_, _, _, _)
getstr(buff, i, n, j) ==
    IF j < n /\ j < 31 THEN <<getbitu(buff, i, 8)>> \o getstr(buff, i + 8, n, j + 1)
    ELSE <<>>

\* the C string held by a char array: its characters up to the first zero
RECURSIVE cstring(_)
cstring(des) ==
    IF des = <<>> \/ des[1] = 0 THEN <<>> ELSE <<des[1]>> \o cstring(Tail(des))

Min(a, b) == IF a < b THEN a ELSE b

\* strncpy(dst,des,n); dst[n]='\0': strncpy writes n bytes, the characters
\* of des up to its first zero and zeros after them, and the terminator is
\* written at index n
strncpy(dst, des, n) ==
    Let(     cstring(des),
        LAMBDA c :
       [k \in 1..(IF Len(dst) > n + 1 THEN Len(dst) ELSE n + 1) |->
            IF k <= Len(c) /\ k <= n THEN c[k]
            ELSE IF k <= n + 1 THEN 0 ELSE dst[k]])

\* decode type 1007: antenna descriptor
decode_type1007(r) ==
    Let(     36,
        LAMBDA i :
        Let( getbitu(r.buff, i + 12, 8),
        LAMBDA n :
    IF i + 28 + 8 * n <= r.len * 8 THEN
        Let3(        getbitu(r.buff, i, 12),
                     getstr(r.buff, i + 20, n, 0),
                     getbitu(r.buff, i + 20 + 8 * Min(n, 31), 8),
            LAMBDA staid, des, setup :
            Let(     test_staid(r, staid),
            LAMBDA t :
           IF t.ret = 0 THEN Ret(t.r, -1)
           ELSE Ret([t.r EXCEPT !.sta.antdes = strncpy(@, des, n),
                                !.sta.antsetup = setup,
                                !.sta.antsno = [@ EXCEPT ![1] = 0]], 5)))
    ELSE Ret(r, -1)))

\* decode type 1008: antenna descriptor & serial number
decode_type1008(r) ==
    Let(     36,
        LAMBDA i :
        Let( getbitu(r.buff, i + 12, 8),
        LAMBDA n :
        Let( getbitu(r.buff, i + 28 + 8 * n, 8),
        LAMBDA m :
    IF i + 36 + 8 * (n + m) <= r.len * 8 THEN
        Let3(        getbitu(r.buff, i, 12),
                     getstr(r.buff, i + 20, n, 0),
                     i + 20 + 8 * Min(n, 31),
            LAMBDA staid, des, i1 :
            Let3(    getbitu(r.buff, i1, 8),
                     getstr(r.buff, i1 + 16, m, 0),
                     test_staid(r, staid),
            LAMBDA setup, sno, t :
           IF t.ret = 0 THEN Ret(t.r, -1)
           ELSE Ret([t.r EXCEPT !.sta.antdes = strncpy(@, des, n),
                                !.sta.antsetup = setup,
                                !.sta.antsno = strncpy(@, sno, m)], 5)))
    ELSE Ret(r, -1))))

\* decode type 1033: receiver and antenna descriptor
decode_type1033(r) ==
    Let(      36,
        LAMBDA i :
        Let(  getbitu(r.buff, i + 12, 8),
        LAMBDA n :
        Let(  getbitu(r.buff, i + 28 + 8 * n, 8),
        LAMBDA m :
        Let(  getbitu(r.buff, i + 36 + 8 * (n + m), 8),
        LAMBDA n1 :
        Let(  getbitu(r.buff, i + 44 + 8 * (n + m + n1), 8),
        LAMBDA n2 :
        Let(  getbitu(r.buff, i + 52 + 8 * (n + m + n1 + n2), 8),
        LAMBDA n3 :
    IF i + 60 + 8 * (n + m + n1 + n2 + n3) <= r.len * 8 THEN
        Let3(        getbitu(r.buff, i, 12),
                     getstr(r.buff, i + 20, n, 0),
                     i + 20 + 8 * Min(n, 31),
            LAMBDA staid, des, i1 :
            Let3(    getbitu(r.buff, i1, 8),
                     getstr(r.buff, i1 + 16, m, 0),
                     i1 + 16 + 8 * Min(m, 31) + 8,
            LAMBDA setup, sno, i2 :
            Let2(    getstr(r.buff, i2, n1, 0),
                     i2 + 8 * Min(n1, 31) + 8,
            LAMBDA rec, i3 :
            Let2(    getstr(r.buff, i3, n2, 0),
                     i3 + 8 * Min(n2, 31) + 8,
            LAMBDA ver, i4 :
            Let2(    getstr(r.buff, i4, n3, 0),
                     test_staid(r, staid),
            LAMBDA rsn, t :
           IF t.ret = 0 THEN Ret(t.r, -1)
           ELSE Ret([t.r EXCEPT !.sta.antdes = strncpy(@, des, n),
                                !.sta.antsetup = setup,
                                !.sta.antsno = strncpy(@, sno, m),
                                !.sta.rectype = strncpy(@, rec, n1),
                                !.sta.recver = strncpy(@, ver, n2),
                                !.sta.recsno = strncpy(@, rsn, n3)], 5))))))
    ELSE Ret(r, -1)))))))

(* ----------------------------- ephemerides ----------------------------- *)

\* the week number left as it was decoded
adjgpsweek_asis(week) == week

\* adjust gps week number using the host clock
adjgpsweek(week) ==
    Let(      time2gpst(utc2gpst(timeget))[1],
        LAMBDA w0 :
        Let(  IF w0 < 1560 THEN 1560 ELSE w0,
        LAMBDA w :
       week + Trunc(w - week + 512, 1024) * 1024))

\* time to <<week, time of week in ms>> of beidou time
time2bdt(t) ==
    Let(       t.time - epoch2time(bdt0).time,
        LAMBDA sec :
        Let(   Trunc(sec, 604800),
        LAMBDA w :
       << w, (sec - w * 604800) * 1000 + t.sec >>))

\* gpstime to bdt
gpst2bdt(t) == timeadd(t, -14000)

\* bdt to gpstime
bdt2gpst(t) == timeadd(t, 14000)

\* beidou week and time of week (ms) to time
bdt2time(week, ms) ==
    Let(       IF Trunc(ms, 1000) < -1000000000 \/ 1000000000 < Trunc(ms, 1000)
               THEN 0 ELSE ms,
        LAMBDA sec :
        Let(     Trunc(sec, 1000),
        LAMBDA whole :
       GTime(epoch2time(bdt0).time + 604800 * week + whole, sec - whole * 1000)))

\* adjust weekly rollover of bdt time using the host clock
adjbdtweek(week) ==
    Let(      time2bdt(gpst2bdt(utc2gpst(timeget)))[1],
        LAMBDA w0 :
        Let(  IF w0 < 1 THEN 1 ELSE w0,
        LAMBDA w :
       week + Trunc(w - week + 512, 1024) * 1024))

\* eph_t eph={0} and geph_t geph={0}: the records the decoders fill
eph_zero == [eph0 EXCEPT !.iode = 0, !.iodc = 0]

geph_zero == [geph0 EXCEPT !.iode = 0]

\* save_eph without the test for an unchanged ephemeris
save_eph_always(r, eph, same) ==
    Ret([r EXCEPT !.nav.eph = Put(@, eph.sat, eph, eph0),
                  !.ephsat = eph.sat], 2)

\* store a decoded ephemeris unless it is unchanged (same issue of data)
\* and -EPHALL is not set
save_eph(r, eph, same) ==
    IF ~r.opt.EPHALL /\ same THEN Ret(r, 0)
    ELSE Ret([r EXCEPT !.nav.eph = Put(@, eph.sat, eph, eph0),
                       !.ephsat = eph.sat], 2)

\* decode type 1019: gps ephemerides
decode_type1019(r) ==
    Let(     36,
        LAMBDA i :
    IF i + 476 <= r.len * 8 THEN
        Let4(       getbitu(r.buff, i, 6),
                    getbitu(r.buff, i + 6, 10),
                    getbitu(r.buff, i + 44, 16) * 16,
                    getbitu(r.buff, i + 276, 16) * 16,
            LAMBDA prn0, week, toc, toes :
            Let2(   IF prn0 >= 40 THEN satno("SBS", prn0 + 80) ELSE satno("GPS", prn0),
                    adjgpsweek(week),
            LAMBDA sat, wk :
            Let(    [eph_zero EXCEPT
                       !.sva   = getbitu(r.buff, i + 16, 4),
                       !.code  = getbitu(r.buff, i + 20, 2),
                       !.idot  = getbits(r.buff, i + 22, 14),
                       !.iode  = getbitu(r.buff, i + 36, 8),
                       !.iodc  = getbitu(r.buff, i + 106, 10),
                       !.crs   = getbits(r.buff, i + 116, 16),
                       !.sqrtA = getbitu32(r.buff, i + 244, 32),
                       !.toes  = toes,
                       !.tgd   = <<getbits(r.buff, i + 460, 8), 0>>,
                       !.svh   = getbitu(r.buff, i + 468, 6),
                       !.flag  = getbitu(r.buff, i + 474, 1),
                       !.fit   = IF getbitu(r.buff, i + 475, 1) # 0 THEN 0 ELSE 4,
                       !.sat   = sat,
                       !.week  = wk,
                       !.toe   = gpst2time(wk, toes * 1000),
                       !.toc   = gpst2time(wk, toc * 1000),
                       !.ttr   = r.time],
            LAMBDA eph :
           IF sat = 0 THEN Ret(r, -1)
           ELSE save_eph(r, eph, eph.iode = Get(r.nav.eph, sat, eph0).iode))))
    ELSE Ret(r, -1))

\* get sign-magnitude bits
getbitg(buff, pos, len) ==
    Let(         getbitu(buff, pos + 1, len - 1),
        LAMBDA value :
    IF getbitu(buff, pos, 1) # 0 THEN -value ELSE value)

\* decode type 1020: glonass ephemerides
decode_type1020(r) ==
    Let(     36,
        LAMBDA i :
    IF i + 348 <= r.len * 8 THEN
        Let6(       getbitu(r.buff, i, 6),
                    getbitu(r.buff, i + 15, 5),
                    getbitu(r.buff, i + 20, 6),
                    getbitu(r.buff, i + 26, 1) * 30,
                    getbitu(r.buff, i + 27, 1),
                    getbitu(r.buff, i + 29, 7),
            LAMBDA prn, tk_h, tk_m, tk_s, bn, tb :
            Let2(   satno("GLO", prn),
                    IF r.time.time = 0 THEN [r EXCEPT !.time = utc2gpst(timeget)]
                    ELSE r,
            LAMBDA sat, r1 :
            Let(    time2gpst(gpst2utc(r1.time)),
            LAMBDA g :
            Let(    fmod(g[2], 86400000),
            LAMBDA tod :
            Let2(   g[2] - tod,
                    (tk_h * 3600 + tk_m * 60 + tk_s - 10800) * 1000,
            LAMBDA tow, tof0 :
            Let2(   IF tof0 < tod - 43200000 THEN tof0 + 86400000
                    ELSE IF tof0 > tod + 43200000 THEN tof0 - 86400000
                    ELSE tof0,
                    (tb * 900 - 10800) * 1000,
            LAMBDA tof, toe0 :
            Let(    IF toe0 < tod - 43200000 THEN toe0 + 86400000
                    ELSE IF toe0 > tod + 43200000 THEN toe0 - 86400000
                    ELSE toe0,
            LAMBDA toe :
            Let(    [geph_zero EXCEPT
                       !.frq  = getbitu(r.buff, i + 6, 5) - 7,
                       !.gamn = getbitg(r.buff, i + 205, 11),
                       !.taun = getbitg(r.buff, i + 219, 22),
                       !.sat  = sat,
                       !.svh  = bn,
                       !.iode = tb % 128,
                       !.tof  = utc2gpst(gpst2time(g[1], tow + tof)),
                       !.toe  = utc2gpst(gpst2time(g[1], tow + toe))],
            LAMBDA geph :
            Let(    timediff(geph.toe, Get(r1.nav.geph, prn, geph0).toe),
            LAMBDA dt :
           IF sat = 0 THEN Ret(r, -1)
           ELSE IF ~r1.opt.EPHALL /\ -1000 < dt /\ dt < 1000
                   /\ geph.svh = Get(r1.nav.geph, prn, geph0).svh
           THEN Ret(r1, 0)
           ELSE Ret([r1 EXCEPT !.nav.geph = Put(@, prn, geph, geph0),
                               !.ephsat = sat], 2))))))))))
    ELSE Ret(r, -1))

\* decode type 1044: qzss ephemerides
decode_type1044(r) ==
    Let(     36,
        LAMBDA i :
    IF i + 473 <= r.len * 8 THEN
        Let4(       getbitu(r.buff, i, 4) + 192,
                    getbitu(r.buff, i + 4, 16) * 16,
                    getbitu(r.buff, i + 234, 16) * 16,
                    getbitu(r.buff, i + 434, 10),
            LAMBDA prn, toc, toes, week :
            Let2(   satno("QZS", prn),
                    adjgpsweek(week),
            LAMBDA sat, wk :
            Let(    [eph_zero EXCEPT
                       !.iode  = getbitu(r.buff, i + 66, 8),
                       !.crs   = getbits(r.buff, i + 74, 16),
                       !.sqrtA = getbitu32(r.buff, i + 202, 32),
                       !.toes  = toes,
                       !.idot  = getbits(r.buff, i + 418, 14),
                       !.code  = getbitu(r.buff, i + 432, 2),
                       !.sva   = getbitu(r.buff, i + 444, 4),
                       !.svh   = getbitu(r.buff, i + 448, 6),
                       !.tgd   = <<getbits(r.buff, i + 454, 8), 0>>,
                       !.iodc  = getbitu(r.buff, i + 462, 10),
                       !.fit   = IF getbitu(r.buff, i + 472, 1) # 0 THEN 0 ELSE 2,
                       !.sat   = sat,
                       !.week  = wk,
                       !.toe   = gpst2time(wk, toes * 1000),
                       !.toc   = gpst2time(wk, toc * 1000),
                       !.ttr   = r.time],
            LAMBDA eph :
           IF sat = 0 THEN Ret(r, -1)
           ELSE save_eph(r, eph, eph.iode = Get(r.nav.eph, sat, eph0).iode
                                 /\ eph.iodc = Get(r.nav.eph, sat, eph0).iodc))))
    ELSE Ret(r, -1))

\* decode type 1045: galileo F/NAV satellite ephemerides
decode_type1045(r) ==
    Let(     36,
        LAMBDA i :
    IF i + 484 <= r.len * 8 THEN
        Let6(       getbitu(r.buff, i, 6),
                    getbitu(r.buff, i + 6, 12),
                    getbitu(r.buff, i + 50, 14) * 60,
                    getbitu(r.buff, i + 282, 14) * 60,
                    getbitu(r.buff, i + 474, 2),
                    getbitu(r.buff, i + 476, 1),
            LAMBDA prn, week, toc, toes, hs, dvs :
            Let(    satno("GAL", prn),
            LAMBDA sat :
            Let(    [eph_zero EXCEPT
                       !.iode  = getbitu(r.buff, i + 18, 10),
                       !.sva   = getbitu(r.buff, i + 28, 8),
                       !.idot  = getbits(r.buff, i + 36, 14),
                       !.crs   = getbits(r.buff, i + 122, 16),
                       !.sqrtA = getbitu32(r.buff, i + 250, 32),
                       !.toes  = toes,
                       !.tgd   = <<getbits(r.buff, i + 464, 10), 0>>,
                       !.sat   = sat,
                       !.week  = week + 1024,
                       !.toe   = gpst2time(week + 1024, toes * 1000),
                       !.toc   = gpst2time(week + 1024, toc * 1000),
                       !.ttr   = r.time,
                       !.svh   = hs * 16 + dvs * 8,
                       !.code  = 1],
            LAMBDA eph :
           IF sat = 0 THEN Ret(r, -1)
           ELSE save_eph(r, eph, eph.iode = Get(r.nav.eph, sat, eph0).iode))))
    ELSE Ret(r, -1))

\* decode type 1046: galileo I/NAV satellite ephemerides
decode_type1046(r) ==
    Let(     36,
        LAMBDA i :
    IF i + 492 <= r.len * 8 THEN
        Let4(       getbitu(r.buff, i, 6),
                    getbitu(r.buff, i + 6, 12),
                    getbitu(r.buff, i + 50, 14) * 60,
                    getbitu(r.buff, i + 282, 14) * 60,
            LAMBDA prn, week, toc, toes :
            Let(    satno("GAL", prn),
            LAMBDA sat :
            Let(    [eph_zero EXCEPT
                       !.iode  = getbitu(r.buff, i + 18, 10),
                       !.sva   = getbitu(r.buff, i + 28, 8),
                       !.idot  = getbits(r.buff, i + 36, 14),
                       !.crs   = getbits(r.buff, i + 122, 16),
                       !.sqrtA = getbitu32(r.buff, i + 250, 32),
                       !.toes  = toes,
                       !.tgd   = <<getbits(r.buff, i + 464, 10),
                                   getbits(r.buff, i + 474, 10)>>,
                       !.sat   = sat,
                       !.week  = week + 1024,
                       !.toe   = gpst2time(week + 1024, toes * 1000),
                       !.toc   = gpst2time(week + 1024, toc * 1000),
                       !.ttr   = r.time,
                       !.svh   = getbitu(r.buff, i + 484, 2) * 128
                                 + getbitu(r.buff, i + 486, 1) * 64
                                 + getbitu(r.buff, i + 487, 2) * 2
                                 + getbitu(r.buff, i + 489, 1),
                       !.code  = 0],
            LAMBDA eph :
           IF sat = 0 THEN Ret(r, -1)
           ELSE save_eph(r, eph, eph.iode = Get(r.nav.eph, sat, eph0).iode))))
    ELSE Ret(r, -1))

\* decode type 1042/63: beidou ephemerides
decode_type1042(r) ==
    Let(     36,
        LAMBDA i :
    IF i + 499 <= r.len * 8 THEN
        Let4(       getbitu(r.buff, i, 6),
                    getbitu(r.buff, i + 6, 13),
                    getbitu(r.buff, i + 42, 17) * 8,
                    getbitu(r.buff, i + 287, 17) * 8,
            LAMBDA prn, week, toc, toes :
            Let2(   satno("CMP", prn),
                    adjbdtweek(week),
            LAMBDA sat, wk :
            Let(    [eph_zero EXCEPT
                       !.sva   = getbitu(r.buff, i + 19, 4),
                       !.idot  = getbits(r.buff, i + 23, 14),
                       !.iode  = getbitu(r.buff, i + 37, 5),
                       !.iodc  = getbitu(r.buff, i + 116, 5),
                       !.crs   = getbits(r.buff, i + 121, 18),
                       !.sqrtA = getbitu32(r.buff, i + 255, 32),
                       !.toes  = toes,
                       !.tgd   = <<getbits(r.buff, i + 478, 10),
                                   getbits(r.buff, i + 488, 10)>>,
                       !.svh   = getbitu(r.buff, i + 498, 1),
                       !.sat   = sat,
                       !.week  = wk,
                       !.toe   = bdt2gpst(bdt2time(wk, toes * 1000)),
                       !.toc   = bdt2gpst(bdt2time(wk, toc * 1000)),
                       !.ttr   = r.time],
            LAMBDA eph :
           IF sat = 0 THEN Ret(r, -1)
           ELSE save_eph(r, eph, timediff(eph.toe, Get(r.nav.eph, sat, eph0).toe) = 0
                                 /\ eph.iode = Get(r.nav.eph, sat, eph0).iode
                                 /\ eph.iodc = Get(r.nav.eph, sat, eph0).iodc))))
    ELSE Ret(r, -1))

(* ------------------------------- ssr ----------------------------------- *)

\* ssr update intervals (s)
ssrudint == <<1, 2, 5, 10, 15, 30, 60, 120, 240, 300, 600, 900, 1800, 3600,
              7200, 10800>>

\* per-system field widths of the ssr satellite blocks: prn bits, iode
\* bits, iod-crc bits, prn offset
ssrsys == [GPS |-> [np |-> 6, ni |-> 8,  nj |-> 0,  offp |-> 0],
           GLO |-> [np |-> 5, ni |-> 8,  nj |-> 0,  offp |-> 0],
           GAL |-> [np |-> 6, ni |-> 10, nj |-> 0,  offp |-> 0],
           QZS |-> [np |-> 4, ni |-> 8,  nj |-> 0,  offp |-> 192],
           CMP |-> [np |-> 6, ni |-> 10, nj |-> 24, offp |-> 1],
           SBS |-> [np |-> 6, ni |-> 9,  nj |-> 24, offp |-> 120]]

\* ssr message header with (k = 1) or without (k = 0) the reference datum
\* bit; nsat is -1 on error, i is the header size
ssr_head(r, sys, k) ==
    Let2(     36,
              IF sys = "QZS" THEN 4 ELSE 6,
        LAMBDA i0, ns :
    IF i0 + (IF sys = "GLO" THEN 52 + k ELSE 49 + k + ns) > r.len * 8
    THEN [r |-> r, nsat |-> -1, sync |-> 0, iod |-> 0, udint |-> 0, refd |-> 0,
          i |-> i0]
    ELSE
        Let2(     IF sys = "GLO"
                  THEN adjday_glot(r, getbitu(r.buff, i0, 17) * 1000)
                  ELSE adjweek(r, getbitu(r.buff, i0, 20) * 1000),
                  IF sys = "GLO" THEN i0 + 17 ELSE i0 + 20,
            LAMBDA r1, i :
           [r |-> r1,
            udint |-> ssrudint[getbitu(r.buff, i, 4) + 1],
            sync  |-> getbitu(r.buff, i + 4, 1),
            refd  |-> IF k = 1 THEN getbitu(r.buff, i + 5, 1) ELSE 0,
            iod   |-> getbitu(r.buff, i + 5 + k, 4),
            nsat  |-> getbitu(r.buff, i + 29 + k, ns),
            i     |-> i + 29 + k + ns]))

\* decode ssr 1,4 message header
decode_ssr1_head(r, sys) == ssr_head(r, sys, 1)

\* decode ssr 2,3,5,6 message header
decode_ssr2_head(r, sys) == ssr_head(r, sys, 0)

\* orbit correction terms read at bit i
ssr_orbit(buff, i) ==
    [deph  |-> <<getbits(buff, i, 22), getbits(buff, i + 22, 20),
                 getbits(buff, i + 42, 20)>>,
     ddeph |-> <<getbits(buff, i + 62, 21), getbits(buff, i + 83, 19),
                 getbits(buff, i + 102, 19)>>]

\* clock correction terms read at bit i
ssr_clock(buff, i) ==
    <<getbits(buff, i, 22), getbits(buff, i + 22, 21), getbits(buff, i + 43, 27)>>

RECURSIVE loop_ssr1(_, _, _, _, _)
loop_ssr1(r, sys, h, j, i) ==
    Let(       ssrsys[sys],
        LAMBDA w :
        Let2(  satno(sys, getbitu(r.buff, i, w.np) + w.offp),
               ssr_orbit(r.buff, i + w.np + w.ni + w.nj),
        LAMBDA sat, o :
        Let(   IF sat = 0 THEN r
               ELSE setssr(r, sat, [ssrat(r, sat) EXCEPT !.t0[0] = r.time,
                              !.udi[0] = h.udint,
                              !.iod[0] = h.iod,
                              !.iode = getbitu(r.buff, i + w.np, w.ni),
                              !.iodcrc = getbitu(r.buff, i + w.np + w.ni, w.nj),
                              !.refd = h.refd,
                              !.deph = o.deph,
                              !.ddeph = o.ddeph,
                              !.update = 1]),
        LAMBDA r1 :
       IF j < h.nsat /\ i + 121 + w.np + w.ni + w.nj <= r.len * 8
       THEN loop_ssr1(r1, sys, h, j + 1, i + 121 + w.np + w.ni + w.nj)
       ELSE r)))

\* decode ssr 1: orbit corrections
decode_ssr1(r, sys) ==
    Let(     decode_ssr1_head(r, sys),
        LAMBDA h :
    IF h.nsat < 0 THEN Ret(h.r, -1)
    ELSE Ret(loop_ssr1(h.r, sys, h, 0, h.i), IF h.sync # 0 THEN 0 ELSE 10))

RECURSIVE loop_ssr2(_, _, _, _, _)
loop_ssr2(r, sys, h, j, i) ==
    Let(       ssrsys[sys],
        LAMBDA w :
        Let(   satno(sys, getbitu(r.buff, i, w.np) + w.offp),
        LAMBDA sat :
        Let(   IF sat = 0 THEN r
               ELSE setssr(r, sat, [ssrat(r, sat) EXCEPT !.t0[1] = r.time,
                              !.udi[1] = h.udint,
                              !.iod[1] = h.iod,
                              !.dclk = ssr_clock(r.buff, i + w.np),
                              !.update = 1]),
        LAMBDA r1 :
       IF j < h.nsat /\ i + 70 + w.np <= r.len * 8
       THEN loop_ssr2(r1, sys, h, j + 1, i + 70 + w.np)
       ELSE r)))

\* decode ssr 2: clock corrections
decode_ssr2(r, sys) ==
    Let(     decode_ssr2_head(r, sys),
        LAMBDA h :
    IF h.nsat < 0 THEN Ret(h.r, -1)
    ELSE Ret(loop_ssr2(h.r, sys, h, 0, h.i), IF h.sync # 0 THEN 0 ELSE 10))

RECURSIVE loop_ssr4(_, _, _, _, _)
loop_ssr4(r, sys, h, j, i) ==
    Let(       ssrsys[sys],
        LAMBDA w :
        Let2(  satno(sys, getbitu(r.buff, i, w.np) + w.offp),
               ssr_orbit(r.buff, i + w.np + w.ni + w.nj),
        LAMBDA sat, o :
        Let(   IF sat = 0 THEN r
               ELSE setssr(r, sat, [ssrat(r, sat) EXCEPT !.t0[0] = r.time,
                              !.t0[1] = r.time,
                              !.udi[0] = h.udint,
                              !.udi[1] = h.udint,
                              !.iod[0] = h.iod,
                              !.iod[1] = h.iod,
                              !.iode = getbitu(r.buff, i + w.np, w.ni),
                              !.iodcrc = getbitu(r.buff, i + w.np + w.ni, w.nj),
                              !.refd = h.refd,
                              !.deph = o.deph,
                              !.ddeph = o.ddeph,
                              !.dclk =
                                  ssr_clock(r.buff, i + w.np + w.ni + w.nj + 121),
                              !.update = 1]),
        LAMBDA r1 :
       IF j < h.nsat /\ i + 191 + w.np + w.ni + w.nj <= r.len * 8
       THEN loop_ssr4(r1, sys, h, j + 1, i + 191 + w.np + w.ni + w.nj)
       ELSE r)))

\* decode ssr 4: combined orbit and clock corrections
decode_ssr4(r, sys) ==
    Let(     decode_ssr1_head(r, sys),
        LAMBDA h :
    IF h.nsat < 0 THEN Ret(h.r, -1)
    ELSE Ret(loop_ssr4(h.r, sys, h, 0, h.i), IF h.sync # 0 THEN 0 ELSE 10))

RECURSIVE loop_ssr5(_, _, _, _, _)
loop_ssr5(r, sys, h, j, i) ==
    Let(       ssrsys[sys],
        LAMBDA w :
        Let(   satno(sys, getbitu(r.buff, i, w.np) + w.offp),
        LAMBDA sat :
        Let(   IF sat = 0 THEN r
               ELSE setssr(r, sat, [ssrat(r, sat) EXCEPT !.t0[3] = r.time,
                              !.udi[3] = h.udint,
                              !.iod[3] = h.iod,
                              !.ura = getbitu(r.buff, i + w.np, 6),
                              !.update = 1]),
        LAMBDA r1 :
       IF j < h.nsat /\ i + 6 + w.np <= r.len * 8
       THEN loop_ssr5(r1, sys, h, j + 1, i + 6 + w.np)
       ELSE r)))

\* decode ssr 5: ura
decode_ssr5(r, sys) ==
    Let(     decode_ssr2_head(r, sys),
        LAMBDA h :
    IF h.nsat < 0 THEN Ret(h.r, -1)
    ELSE Ret(loop_ssr5(h.r, sys, h, 0, h.i), IF h.sync # 0 THEN 0 ELSE 10))

RECURSIVE loop_ssr6(_, _, _, _, _)
loop_ssr6(r, sys, h, j, i) ==
    Let(       ssrsys[sys],
        LAMBDA w :
        Let(   satno(sys, getbitu(r.buff, i, w.np) + w.offp),
        LAMBDA sat :
        Let(   IF sat = 0 THEN r
               ELSE setssr(r, sat, [ssrat(r, sat) EXCEPT !.t0[2] = r.time,
                              !.udi[2] = h.udint,
                              !.iod[2] = h.iod,
                              !.hrclk = getbits(r.buff, i + w.np, 22),
                              !.update = 1]),
        LAMBDA r1 :
       IF j < h.nsat /\ i + 22 + w.np <= r.len * 8
       THEN loop_ssr6(r1, sys, h, j + 1, i + 22 + w.np)
       ELSE r)))

\* decode ssr 6: high rate clock correction
decode_ssr6(r, sys) ==
    Let(     decode_ssr2_head(r, sys),
        LAMBDA h :
    IF h.nsat < 0 THEN Ret(h.r, -1)
    ELSE Ret(loop_ssr6(h.r, sys, h, 0, h.i), IF h.sync # 0 THEN 0 ELSE 10))

\* ssr signal and tracking mode ids
codes_gps == <<"1C", "1P", "1W", "1Y", "1M", "2C", "2D", "2S", "2L", "2X",
               "2P", "2W", "2Y", "2M", "5I", "5Q", "5X">>
codes_glo == <<"1C", "1P", "2C", "2P">>
codes_gal == <<"1A", "1B", "1C", "1X", "1Z", "5I", "5Q", "5X", "7I", "7Q",
               "7X", "8I", "8Q", "8X", "6A", "6B", "6C", "6X", "6Z">>
codes_qzs == <<"1C", "1S", "1L", "2S", "2L", "2X", "5I", "5Q", "5X", "6S",
               "6L", "6X", "1X">>
codes_bds == <<"1I", "1Q", "1X", "7I", "7Q", "7X", "6I", "6Q", "6X">>
codes_sbs == <<"1C", "5I", "5Q", "5X">>

ssrcodes == [GPS |-> codes_gps, GLO |-> codes_glo, GAL |-> codes_gal,
             QZS |-> codes_qzs, CMP |-> codes_bds, SBS |-> codes_sbs]

\* codes[mode]: the entry of the table, or, one past its end, whatever
\* the memory behind the table holds
codes_at(codes, mode) ==
    IF mode < Len(codes) THEN CODE(codes[mode + 1]) ELSE heap

\* the code biases of one satellite: k counts the biases read, i is the
\* bit position; returns the bias array and the position after the loop
RECURSIVE bias_ssr3(_, _, _, _, _, _)
bias_ssr3(r, sys, nbias, k, i, cbias) ==
    IF k < nbias /\ i + 19 <= r.len * 8
    THEN Let2(       getbitu(r.buff, i, 5),
                     getbits(r.buff, i + 5, 14),
             LAMBDA mode, bias :
             Let(    codes_at(ssrcodes[sys], mode) - 1,
             LAMBDA c :
            bias_ssr3(r, sys, nbias, k + 1, i + 19,
                      IF mode <= Len(ssrcodes[sys]) /\ c \in DOMAIN cbias
                      THEN [cbias EXCEPT ![c] = bias] ELSE cbias)))
    ELSE [cbias |-> cbias, i |-> i]

RECURSIVE loop_ssr3(_, _, _, _, _)
loop_ssr3(r, sys, h, j, i) ==
    Let(       ssrsys[sys],
        LAMBDA w :
        Let2(  satno(sys, getbitu(r.buff, i, w.np) + w.offp),
               bias_ssr3(r, sys, getbitu(r.buff, i + w.np, 5), 0, i + w.np + 5,
                         [k \in 0..(MAXCODE - 1) |-> 0]),
        LAMBDA sat, b :
        Let(   IF sat = 0 THEN r
               ELSE setssr(r, sat, [ssrat(r, sat) EXCEPT !.t0[4] = r.time,
                              !.udi[4] = h.udint,
                              !.iod[4] = h.iod,
                              !.cbias = b.cbias,
                              !.update = 1]),
        LAMBDA r1 :
       IF j < h.nsat /\ i + 5 + w.np <= r.len * 8
       THEN loop_ssr3(r1, sys, h, j + 1, b.i)
       ELSE r)))

\* decode ssr 3: satellite code biases
decode_ssr3(r, sys) ==
    Let(     decode_ssr2_head(r, sys),
        LAMBDA h :
    IF h.nsat < 0 THEN Ret(h.r, -1)
    ELSE Ret(loop_ssr3(h.r, sys, h, 0, h.i), IF h.sync # 0 THEN 0 ELSE 10))

(* ------------------------------- msm ----------------------------------- *)

\* msm signal id tables
msm_sig_gps == <<
    "",   "1C", "1P", "1W", "1Y", "1M", "",   "2C", "2P", "2W", "2Y", "2M",
    "",   "",   "2S", "2L", "2X", "",   "",   "",   "",   "5I", "5Q", "5X",
    "",   "",   "",   "",   "",   "1S", "1L", "1X" >>
msm_sig_glo == <<
    "",   "1C", "1P", "",   "",   "",   "",   "2C", "2P", "",   "3I", "3Q",
    "3X", "",   "",   "",   "",   "",   "",   "",   "",   "",   "",   "",
    "",   "",   "",   "",   "",   "",   "",   "" >>
msm_sig_gal == <<
    "",   "1C", "1A", "1B", "1X", "1Z", "",   "6C", "6A", "6B", "6X", "6Z",
    "",   "7I", "7Q", "7X", "",   "8I", "8Q", "8X", "",   "5I", "5Q", "5X",
    "",   "",   "",   "",   "",   "",   "",   "" >>
msm_sig_qzs == <<
    "",   "1C", "",   "",   "",   "",   "",   "",   "6S", "6L", "6X", "",
    "",   "",   "2S", "2L", "2X", "",   "",   "",   "",   "5I", "5Q", "5X",
    "",   "",   "",   "",   "",   "1S", "1L", "1X" >>
msm_sig_sbs == <<
    "",   "1C", "",   "",   "",   "",   "",   "",   "",   "",   "",   "",
    "",   "",   "",   "",   "",   "",   "",   "",   "",   "5I", "5Q", "5X",
    "",   "",   "",   "",   "",   "",   "",   "" >>
msm_sig_cmp == <<
    "",   "1I", "1Q", "1X", "",   "",   "",   "6I", "6Q", "6X", "",   "",
    "",   "7I", "7Q", "7X", "",   "",   "",   "",   "",   "",   "",   "",
    "",   "",   "",   "",   "",   "",   "",   "" >>

msm_sig == [GPS |-> msm_sig_gps, GLO |-> msm_sig_glo, GAL |-> msm_sig_gal,
            QZS |-> msm_sig_qzs, SBS |-> msm_sig_sbs, CMP |-> msm_sig_cmp]

\* the band (first) character of each observation code string
obsband == <<
    "" , "1", "1", "1", "1", "1", "1", "1", "1", "1",
    "1", "1", "1", "1", "2", "2", "2", "2", "2", "2",
    "2", "2", "2", "2", "5", "5", "5", "7", "7", "7",
    "6", "6", "6", "6", "6", "6", "6", "8", "8", "8",
    "2", "2", "6", "6", "3", "3", "3", "1", "1", "" >>

\* the attribute (second) character of each observation code string
obsattr == <<
    "",  "C", "P", "W", "Y", "M", "N", "S", "L", "E",
    "A", "B", "X", "Z", "C", "D", "S", "L", "X", "P",
    "W", "Y", "M", "N", "I", "Q", "X", "I", "Q", "X",
    "A", "B", "C", "X", "Z", "S", "L", "L", "Q", "X",
    "I", "Q", "I", "Q", "I", "Q", "X", "I", "Q", "" >>

\* code priority table, one row of attribute characters per frequency
codepris ==
    [GPS |-> << <<"C","P","Y","W","M","N","S","L">>,
                <<"P","Y","W","C","M","N","D","S","L","X">>,
                <<"I","Q","X">>, <<>>, <<>>, <<>> >>,
     GLO |-> << <<"P","C">>, <<"P","C">>, <<"I","Q","X">>, <<>>, <<>>, <<>> >>,
     GAL |-> << <<"C","A","B","X","Z">>, <<>>, <<"I","Q","X">>,
                <<"A","B","C","X","Z">>, <<"I","Q","X">>, <<"I","Q","X">> >>,
     QZS |-> << <<"C","S","L","X","Z">>, <<"S","L","X">>, <<"I","Q","X">>,
                <<"S","L","X">>, <<>>, <<>> >>,
     SBS |-> << <<"C">>, <<>>, <<"I","Q","X">>, <<>>, <<>>, <<>> >>,
     CMP |-> << <<"I","Q","X">>, <<"I","Q","X">>, <<"I","Q","X">>,
                <<"I","Q","X">>, <<"I","Q","X">>, <<>> >>]

\* obs code to its frequency: code2obs(code,&freq)
code2obs(code) ==
    IF code <= 0 \/ MAXCODE < code THEN 0 ELSE obsfreqs[code + 1]

\* a code priority taken from the priority table whatever the options
getcodepri_noopt(sys, code, opt) ==
    IF sys \notin DOMAIN codepris THEN 0
    ELSE Let(       {k \in 1..Len(codepris[sys][code2obs(code)]) :
                        codepris[sys][code2obs(code)][k] = obsattr[code + 1]},
             LAMBDA hit :
            IF hit = {} THEN 0 ELSE 14 - (least(hit) - 1))

\* get code priority (15:highest-1:lowest, 0:error): the first code
\* option of the system with the band of the code decides, then the
\* priority table
getcodepri(sys, code, opt) ==
    IF sys \notin DOMAIN codepris THEN 0
    ELSE Let3(      codepris[sys][code2obs(code)],
                    {k \in 1..Len(opt.codes) :
                        /\ opt.codes[k].sys = sys
                        /\ opt.codes[k].str[1] = obsband[code + 1]},
                    obsattr[code + 1],
             LAMBDA row, tok, attr :
             Let(   {k \in 1..Len(row) : row[k] = attr},
             LAMBDA hit :
            IF tok # {}
            THEN IF Tail(opt.codes[least(tok)].str) = <<attr>> THEN 15 ELSE 0
            ELSE IF hit = {} THEN 0
            ELSE 14 - (least(hit) - 1)))

\* satellite number to satellite system ("" for none)
satsys(sat) ==
    IF sat <= 0 \/ MAXSAT < sat THEN ""
    ELSE SYSTEMS[CHOOSE k \in 1..Len(SYSTEMS) :
                     SatBase(k) < sat /\ sat <= SatBase(k + 1)]

\* satellite carrier: the model keeps the frequency (units of 500 Hz) in
\* place of the wave length; 0 stands for the error value
satwavelen(sat, frq, nav) ==
    Let(       satsys(sat),
        LAMBDA sys :
    IF sys = "GLO" THEN
        Let(       {i \in DOMAIN nav.geph : nav.geph[i].sat = sat},
            LAMBDA hit :
        IF 0 <= frq /\ frq <= 2 /\ hit # {}
        THEN Let(      nav.geph[CHOOSE i \in hit : \A k \in hit : i <= k].frq,
                 LAMBDA fn :
                IF frq = 2 THEN 2404050 ELSE freq_glo(frq + 1, fn))
        ELSE 0)
    ELSE IF sys = "CMP" THEN
        IF frq = 0 THEN 3122196 ELSE IF frq = 1 THEN 2537040
        ELSE IF frq = 2 THEN 2414280 ELSE 0
    ELSE IF 0 <= frq /\ frq <= 5 THEN lam_carr[frq + 1] ELSE 0)

\* first pass of sigindex over signals i..n: the highest-priority signal
\* of each frequency keeps its slot, the others are marked extended
RECURSIVE sigpri(_, _, _, _, _, _, _, _)
sigpri(sys, code, freq, opt, i, pri_h, index, ex) ==
    IF i > Len(code) THEN ex
    ELSE IF code[i] = 0 THEN sigpri(sys, code, freq, opt, i + 1, pri_h, index, ex)
    ELSE IF freq[i] > NFREQ
         THEN sigpri(sys, code, freq, opt, i + 1, pri_h, index,
                     [ex EXCEPT ![i] = 1])
    ELSE Let2(      getcodepri(sys, code[i], opt),
                    freq[i],
             LAMBDA pri, f :
            IF pri > pri_h[f]
            THEN sigpri(sys, code, freq, opt, i + 1, [pri_h EXCEPT ![f] = pri],
                        [index EXCEPT ![f] = i],
                        IF index[f] # 0 THEN [ex EXCEPT ![index[f]] = 1] ELSE ex)
            ELSE sigpri(sys, code, freq, opt, i + 1, pri_h, index,
                        [ex EXCEPT ![i] = 1]))

\* second pass of sigindex: slot of each signal, -1 for no space
RECURSIVE sigslot(_, _, _, _, _)
sigslot(freq, ex, i, nex, ind) ==
    IF i > Len(freq) THEN ind
    ELSE IF ex[i] = 0 THEN sigslot(freq, ex, i + 1, nex, Append(ind, freq[i] - 1))
    ELSE IF nex < NEXOBS
         THEN sigslot(freq, ex, i + 1, nex + 1, Append(ind, NFREQ + nex))
    ELSE sigslot(freq, ex, i + 1, nex, Append(ind, -1))

\* a signal index that gives every signal the slot of its band
sigindex_byband(sys, code, freq, opt) == [k \in 1..Len(code) |-> freq[k] - 1]

\* get signal index: the obs data slot of each signal
sigindex(sys, code, freq, opt) ==
    sigslot(freq,
            sigpri(sys, code, freq, opt, 1, [f \in 1..8 |-> 0],
                   [f \in 1..8 |-> 0], [i \in 1..Len(code) |-> 0]),
            1, 0, <<>>)

\* the elements of a set of numbers in increasing order
Ascending(S) ==
    SubSeq([k \in 1..Cardinality(S) |->
               CHOOSE x \in S : Cardinality({y \in S : y < x}) = k - 1],
           1, Cardinality(S))

\* the ids j in 1..n whose mask bit, the first at bit i, is set
maskids(buff, i, n) ==
    Ascending({j \in 1..n : getbitu(buff, i + j - 1, 1) # 0})

\* a header decoder without the limit of 64 cells
decode_msm_head_nolimit(r, sys) ==
    Let(        36,
        LAMBDA i0 :
        Let(    [r |-> r, ncell |-> -1, sync |-> 0, sats |-> <<>>, sigs |-> <<>>,
                 cellmask |-> <<>>, i |-> i0],
        LAMBDA none :
    IF i0 + 157 <= r.len * 8 THEN
        Let2(        getbitu(r.buff, i0, 12),
                  i0 + 12,
            LAMBDA staid, i1 :
            Let2( IF sys = "GLO"
                  THEN adjday_glot(r, getbitu(r.buff, i1 + 3, 27))
                  ELSE IF sys = "CMP"
                  THEN adjweek(r, getbitu(r.buff, i1, 30) + 14000)
                  ELSE adjweek(r, getbitu(r.buff, i1, 30)),
                  i1 + 30,
            LAMBDA r1, i2 :
            Let2(   getbitu(r.buff, i2, 1),
                  i2 + 19,
            LAMBDA sync, i3 :
            Let4(   maskids(r.buff, i3, 64),
                    maskids(r.buff, i3 + 64, 32),
                  i3 + 96,
                  test_staid(r1, staid),
            LAMBDA sats, sigs, i4, t :
            Let(  Len(sats) * Len(sigs),
            LAMBDA n :
            Let(        [j \in 1..n |-> getbitu(r.buff, i4 + j - 1, 1)],
            LAMBDA cellmask :
           IF t.ret = 0 THEN [none EXCEPT !.r = t.r]
           ELSE IF i4 + n > r.len * 8 THEN [none EXCEPT !.r = t.r]
           ELSE [r |-> t.r, ncell |-> Cardinality({j \in 1..n : cellmask[j] # 0}),
                 sync |-> sync, sats |-> sats, sigs |-> sigs,
                 cellmask |-> cellmask, i |-> i4 + n]))))))
    ELSE none))

\* decode type msm message header; ncell is -1 on error
decode_msm_head(r, sys) ==
    Let(        36,
        LAMBDA i0 :
        Let(    [r |-> r, ncell |-> -1, sync |-> 0, sats |-> <<>>, sigs |-> <<>>,
                 cellmask |-> <<>>, i |-> i0],
        LAMBDA none :
    IF i0 + 157 <= r.len * 8 THEN
        Let2(        getbitu(r.buff, i0, 12),
                  i0 + 12,
            LAMBDA staid, i1 :
            Let2( IF sys = "GLO"
                  THEN adjday_glot(r, getbitu(r.buff, i1 + 3, 27))
                  ELSE IF sys = "CMP"
                  THEN adjweek(r, getbitu(r.buff, i1, 30) + 14000)
                  ELSE adjweek(r, getbitu(r.buff, i1, 30)),
                  i1 + 30,
            LAMBDA r1, i2 :
            Let2(   getbitu(r.buff, i2, 1),
                  i2 + 19,
            LAMBDA sync, i3 :
            Let4(   maskids(r.buff, i3, 64),
                    maskids(r.buff, i3 + 64, 32),
                  i3 + 96,
                  test_staid(r1, staid),
            LAMBDA sats, sigs, i4, t :
            Let(  Len(sats) * Len(sigs),
            LAMBDA n :
            Let(        [j \in 1..n |-> getbitu(r.buff, i4 + j - 1, 1)],
            LAMBDA cellmask :
           IF t.ret = 0 THEN [none EXCEPT !.r = t.r]
           ELSE IF n > 64 THEN [none EXCEPT !.r = t.r]
           ELSE IF i4 + n > r.len * 8 THEN [none EXCEPT !.r = t.r]
           ELSE [r |-> t.r, ncell |-> Cardinality({j \in 1..n : cellmask[j] # 0}),
                 sync |-> sync, sats |-> sats, sigs |-> sigs,
                 cellmask |-> cellmask, i |-> i4 + n]))))))
    ELSE none))

\* decode unsupported msm message
decode_msm0(r, sys) ==
    Let(     decode_msm_head(r, sys),
        LAMBDA h :
    IF h.ncell < 0 THEN Ret(h.r, -1)
    ELSE Ret([h.r EXCEPT !.obsflag = 1 - h.sync], IF h.sync # 0 THEN 0 ELSE 1))

\* field widths of the msm 4-7 satellite and signal blocks: extended
\* satellite info and range rates present, bits of fine pseudorange,
\* phaserange, lock time and cnr
msmfmt == [m \in 4..7 |->
              [ext |-> m \in {5, 7},
               npr |-> IF m < 6 THEN 15 ELSE 20, ncp |-> IF m < 6 THEN 22 ELSE 24,
               nlock |-> IF m < 6 THEN 4 ELSE 10, ncnr |-> IF m < 6 THEN 6 ELSE 10]]

msm_satbits(m) == IF msmfmt[m].ext THEN 36 ELSE 18

msm_cellbits(m) ==
    msmfmt[m].npr + msmfmt[m].ncp + msmfmt[m].nlock + 1 + msmfmt[m].ncnr
    + (IF msmfmt[m].ext THEN 15 ELSE 0)

\* satellite data of satellite j (from 0) of an msm 4-7 message whose
\* header ends at bit i: rough range in 1/1024 ms (0: invalid), extended
\* info, rough range rate in m/s
msm_sat(r, m, h, j) ==
    Let3(        Len(h.sats),
                 IF msmfmt[m].ext THEN 4 ELSE 0,
                 getbitu(r.buff, h.i + 8 * j, 8),
        LAMBDA nsat, e, rng :
        Let2(    getbitu(r.buff, h.i + (8 + e) * nsat + 10 * j, 10),
                 getbits(r.buff, h.i + (18 + e) * nsat + 14 * j, 14),
        LAMBDA rng_m, rate :
       [r  |-> IF rng = 255 \/ rng = 0 THEN 0 ELSE rng * 1024 + rng_m,
        ex |-> IF msmfmt[m].ext THEN getbitu(r.buff, h.i + 8 * nsat + 4 * j, 4)
               ELSE 15,
        rr |-> IF msmfmt[m].ext /\ rate # -8192 THEN rate ELSE 0]))

\* signal data of cell j (from 0): fine pseudorange in 2^-29 ms and fine
\* phaserange in 2^-31 ms with their validity, lock time, half-cycle
\* flag, cnr in 1/16 dBHz, fine range rate in 0.0001 m/s
msm_cell(r, m, h, j) ==
    Let2(      msmfmt[m],
               h.i + msm_satbits(m) * Len(h.sats),
        LAMBDA f, c0 :
        Let(   c0 + f.npr * h.ncell,
        LAMBDA c1 :
        Let(   c1 + f.ncp * h.ncell,
        LAMBDA c2 :
        Let(   c2 + f.nlock * h.ncell,
        LAMBDA c3 :
        Let(   c3 + h.ncell,
        LAMBDA c4 :
        Let3(  c4 + f.ncnr * h.ncell,
               getbits(r.buff, c0 + f.npr * j, f.npr),
               getbits(r.buff, c1 + f.ncp * j, f.ncp),
        LAMBDA c5, prv, cpv :
        Let(   getbits(r.buff, c5 + 15 * j, 15),
        LAMBDA rrv :
       [prok |-> prv # -Pow2(f.npr - 1),
        pr   |-> IF f.npr = 15 THEN prv * 32 ELSE prv,
        cpok |-> cpv # -Pow2(f.ncp - 1),
        cp   |-> IF f.ncp = 22 THEN cpv * 4 ELSE cpv,
        lock |-> getbitu(r.buff, c2 + f.nlock * j, f.nlock),
        half |-> getbitu(r.buff, c3 + j, 1),
        cnr  |-> IF f.ncnr = 6 THEN 16 * getbitu(r.buff, c4 + 6 * j, 6)
                 ELSE getbitu(r.buff, c4 + 10 * j, 10),
        rrok |-> f.ext /\ rrv # -16384,
        rrf  |-> IF f.ext THEN rrv ELSE 0])))))))

\* one signal of one satellite saved by save_msm_obs: k is the signal
\* (from 1), j its cell, index the obs data index of the satellite
msm_save(r, m, h, sg, i, sat, index, k, j) ==
        Let4(      msm_sat(r, m, h, i - 1),
                   msm_cell(r, m, h, j),
                   sg.ind[k],
                   satwavelen(sat, sg.freq[k] - 1, r.nav),
            LAMBDA s, c, q, wl0 :
            Let2(  IF satsys(sat) = "GLO" /\ msmfmt[m].ext /\ s.ex <= 13
                   THEN freq_glo(sg.freq[k], s.ex - 7) ELSE wl0,
                   IF s.r # 0 /\ c.prok
                   THEN [r EXCEPT !.obs.data[index].P[q] = [u |-> c.pr, amb |-> s.r]]
                   ELSE r,
            LAMBDA wl, r1 :
            Let(   IF s.r # 0 /\ c.cpok /\ wl > 0
                   THEN [r1 EXCEPT !.obs.data[index].L[q] =
                                       [u |-> c.cp, amb |-> s.r, cp |-> 0]]
                   ELSE r1,
            LAMBDA r2 :
            Let(   IF c.rrok /\ wl > 0
                   THEN [r2 EXCEPT !.obs.data[index].D[q] = -(s.rr * 10000 + c.rrf)]
                   ELSE r2,
            LAMBDA r3 :
            Let(   lossoflock(r3, sat, q, c.lock),
            LAMBDA l :
                   [l.r EXCEPT !.obs.data[index].LLI[q] =
                                   l.lli + (IF c.half # 0 THEN 3 ELSE 0),
                               !.obs.data[index].SNR[q] = (c.cnr \div 4) % 256,
                               !.obs.data[index].code[q] = sg.code[k]])))))

\* signals that count a cell only when it is saved
RECURSIVE msm_sigs_saved(_, _, _, _, _, _, _, _, _)
msm_sigs_saved(r, m, h, sg, i, sat, index, k, j) ==
    IF k > Len(h.sigs) THEN [r |-> r, j |-> j]
    ELSE IF h.cellmask[k + (i - 1) * Len(h.sigs)] = 0
            \/ sat = 0 \/ index < 0 \/ sg.ind[k] < 0
         THEN msm_sigs_saved(r, m, h, sg, i, sat, index, k + 1, j)
    ELSE Let(      msm_save(r, m, h, sg, i, sat, index, k, j),
            LAMBDA r4 :
           Then(r4, msm_sigs_saved(r4, m, h, sg, i, sat, index, k + 1, j + 1)))

\* the signals of one satellite in save_msm_obs: k is the signal (from 1),
\* j the cell counter; returns the control record and the cell counter
RECURSIVE msm_sigs(_, _, _, _, _, _, _, _, _)
msm_sigs(r, m, h, sg, i, sat, index, k, j) ==
    IF k > Len(h.sigs) THEN [r |-> r, j |-> j]
    ELSE IF h.cellmask[k + (i - 1) * Len(h.sigs)] = 0
         THEN msm_sigs(r, m, h, sg, i, sat, index, k + 1, j)
    ELSE IF sat = 0 \/ index < 0 \/ sg.ind[k] < 0
         THEN msm_sigs(r, m, h, sg, i, sat, index, k + 1, j + 1)
    ELSE Let(      msm_save(r, m, h, sg, i, sat, index, k, j),
            LAMBDA r4 :
           Then(r4, msm_sigs(r4, m, h, sg, i, sat, index, k + 1, j + 1)))

\* one satellite of save_msm_obs with its signals: i is the satellite
\* (from 1), index the obs data index left by the satellite before;
\* returns the control record, the cell counter and the index
msm_satsigs(r, sys, m, h, sg, i, index, j) ==
        Let(       h.sats[i] + (IF sys = "QZS" THEN PRNRANGE["QZS"][1] - 1
                                ELSE IF sys = "SBS" THEN PRNRANGE["SBS"][1] - 1
                                ELSE 0),
            LAMBDA prn :
            Let2(  satno(sys, prn),
                   newepoch(r),
            LAMBDA sat, r1 :
            Let(   obsindex(r1.obs, r1.time, sat),
            LAMBDA o :
            Let2(  IF sat # 0 THEN [r1 EXCEPT !.obs = o.obs] ELSE r,
                   IF sat # 0 THEN o.index ELSE index,
            LAMBDA r2, ix :
            Let(   msm_sigs(r2, m, h, sg, i, sat, ix, 1, j),
            LAMBDA d :
                   [r |-> d.r, j |-> d.j, index |-> ix])))))

\* the satellites of save_msm_obs from satellite i on
RECURSIVE msm_sats(_, _, _, _, _, _, _, _)
msm_sats(r, sys, m, h, sg, i, index, j) ==
    IF i > Len(h.sats) THEN r
    ELSE Let(      msm_satsigs(r, sys, m, h, sg, i, index, j),
            LAMBDA d :
           Then(d, msm_sats(d.r, sys, m, h, sg, i + 1, d.index, d.j)))

\* save obs data in msm message
save_msm_obs(r, sys, m, h) ==
    Let(        [k \in 1..Len(h.sigs) |-> msm_sig[sys][h.sigs[k]]],
        LAMBDA sig :
        Let2(   [k \in 1..Len(h.sigs) |-> obs2code(sig[k])[1]],
                [k \in 1..Len(h.sigs) |->
                    Let(     obs2code(sig[k])[2],
                        LAMBDA f :
                    IF sys = "CMP" /\ f = 5 THEN 2
                    ELSE IF sys = "CMP" /\ f = 4 THEN 3 ELSE f)],
        LAMBDA code, freq :
        Let(    [code |-> code, freq |-> freq, ind |-> sigindex(sys, code, freq, r.opt)],
        LAMBDA sg :
       Then(sg, msm_sats(r, sys, m, h, sg, 1, 0, 0)))))

\* msm 4-7 after the header: length check, observation data, batch flag
decode_msm(r, sys, m) ==
    Let(     decode_msm_head(r, sys),
        LAMBDA h :
    IF h.ncell < 0 THEN Ret(h.r, -1)
    ELSE IF h.i + Len(h.sats) * msm_satbits(m) + h.ncell * msm_cellbits(m)
            > r.len * 8
    THEN Ret(h.r, -1)
    ELSE Ret([save_msm_obs(h.r, sys, m, h) EXCEPT !.obsflag = 1 - h.sync],
             IF h.sync # 0 THEN 0 ELSE 1))

\* decode msm 4: full pseudorange and phaserange plus cnr
decode_msm4(r, sys) == decode_msm(r, sys, 4)

\* decode msm 5: full pseudorange, phaserange, phaserangerate and cnr
decode_msm5(r, sys) == decode_msm(r, sys, 5)

\* decode msm 6: full pseudorange and phaserange plus cnr (high-res)
decode_msm6(r, sys) == decode_msm(r, sys, 6)

\* decode msm 7: full pseudorange, phaserange, phaserangerate and cnr (h-res)
decode_msm7(r, sys) == decode_msm(r, sys, 7)

(* ---------------------------- dispatcher ------------------------------- *)

\* a decoder of type 1013 that reports an observation epoch
decode_type1013_obs(r) == Ret(r, 1)

\* not supported messages: nothing is decoded
decode_type1013(r) == Ret(r, 0)
decode_type1021(r) == Ret(r, 0)
decode_type1030(r) == Ret(r, 0)
decode_type1034(r) == Ret(r, 0)

\* a decoder of type 1230 that reports a message error
decode_type1230_err(r) == Ret(r, -1)

decode_type1230(r) == Ret(r, 0)

\* first message type of each system's ssr 1-6 and msm 1-7 messages
ssrtype == [GPS |-> 1057, GLO |-> 1063, GAL |-> 1240, QZS |-> 1246,
            SBS |-> 1252, CMP |-> 1258]
msmtype == [GPS |-> 1071, GLO |-> 1081, GAL |-> 1091, SBS |-> 1101,
            QZS |-> 1111, CMP |-> 1121]

\* the ssr and msm branches of the message switch
decode_ssr(r, sys, k) ==
    CASE k = 1 -> decode_ssr1(r, sys) [] k = 2 -> decode_ssr2(r, sys)
      [] k = 3 -> decode_ssr3(r, sys) [] k = 4 -> decode_ssr4(r, sys)
      [] k = 5 -> decode_ssr5(r, sys) [] OTHER -> decode_ssr6(r, sys)

decode_msmx(r, sys, m) ==
    CASE m <= 3 -> decode_msm0(r, sys) [] m = 4 -> decode_msm4(r, sys)
      [] m = 5 -> decode_msm5(r, sys)  [] m = 6 -> decode_msm6(r, sys)
      [] OTHER -> decode_msm7(r, sys)

\* the message switch of decode_rtcm3
decode_switch(r, type) ==
    CASE type = 1001 -> decode_type1001(r) [] type = 1002 -> decode_type1002(r)
      [] type = 1003 -> decode_type1003(r) [] type = 1004 -> decode_type1004(r)
      [] type = 1005 -> decode_type1005(r) [] type = 1006 -> decode_type1006(r)
      [] type = 1007 -> decode_type1007(r) [] type = 1008 -> decode_type1008(r)
      [] type = 1009 -> decode_type1009(r) [] type = 1010 -> decode_type1010(r)
      [] type = 1011 -> decode_type1011(r) [] type = 1012 -> decode_type1012(r)
      [] type = 1013 -> decode_type1013(r)
      [] type = 1019 -> decode_type1019(r) [] type = 1020 -> decode_type1020(r)
      [] type \in 1021..1027 -> decode_type1021(r)
      [] type \in 1030..1032 -> decode_type1030(r)
      [] type = 1033 -> decode_type1033(r)
      [] type \in {1034, 1035, 1037, 1038, 1039} -> decode_type1034(r)
      [] type = 1044 -> decode_type1044(r) [] type = 1045 -> decode_type1045(r)
      [] type = 1046 -> decode_type1046(r)
      [] type \in {63, 1042} -> decode_type1042(r)
      [] type = 1230 -> decode_type1230(r)
      [] \E sys \in DOMAIN ssrtype : type - ssrtype[sys] \in 0..5 ->
            Let(       CHOOSE y \in DOMAIN ssrtype : type - ssrtype[y] \in 0..5,
                LAMBDA sys :
               decode_ssr(r, sys, type - ssrtype[sys] + 1))
      [] \E sys \in DOMAIN msmtype : type - msmtype[sys] \in 0..6 ->
            Let(       CHOOSE y \in DOMAIN msmtype : type - msmtype[y] \in 0..6,
                LAMBDA sys :
               decode_msmx(r, sys, type - msmtype[sys] + 1))
      [] OTHER -> Ret(r, 0)

\* decode_rtcm3 counting every message, decoded or not
decode_rtcm3_all(r) ==
    Let2(       getbitu(r.buff, 24, 12),
                time2gpst(utc2gpst(timeget)),
        LAMBDA type, g :
        Let(    IF r.opt.RT_INP
                THEN [r EXCEPT !.time = gpst2time(g[1], g[2] - (g[2] % 1000))]
                ELSE r,
        LAMBDA r1 :
        Let2(   decode_switch(r1, type),
                IF 1 <= type - 1000 /\ type - 1000 <= 299 THEN type - 1000 ELSE 0,
        LAMBDA d, k :
       Ret([d.r EXCEPT !.nmsg3 = Put(@, k, Get(@, k, 0) + 1, 0)], d.ret))))

\* decode rtcm ver.3 message
decode_rtcm3(r) ==
    Let2(       getbitu(r.buff, 24, 12),
                time2gpst(utc2gpst(timeget)),
        LAMBDA type, g :
        Let(    IF r.opt.RT_INP
                THEN [r EXCEPT !.time = gpst2time(g[1], g[2] - (g[2] % 1000))]
                ELSE r,
        LAMBDA r1 :
        Let2(   decode_switch(r1, type),
                IF 1 <= type - 1000 /\ type - 1000 <= 299 THEN type - 1000 ELSE 0,
        LAMBDA d, k :
       IF d.ret >= 0
       THEN Ret([d.r EXCEPT !.nmsg3 = Put(@, k, Get(@, k, 0) + 1, 0)], d.ret)
       ELSE d)))

(* ------------------------------ framer --------------------------------- *)

\* byte k of the frame buffer written
setbyte(buff, k, data) ==
    IF k < Len(buff) THEN [buff EXCEPT ![k + 1] = data]
    ELSE Append(buff, data)

\* a framer that takes the 6 reserved bits as part of the length
input_rtcm3_len16(r, data) ==
    IF r.nbyte = 0 THEN
        IF data # RTCM3PREAMB THEN [r |-> r, ret |-> 0, calls |-> <<>>]
        ELSE [r |-> [r EXCEPT !.buff = setbyte(r.buff, 0, data), !.nbyte = 1],
              ret |-> 0, calls |-> <<>>]
    ELSE
        Let2(     setbyte(r.buff, r.nbyte, data),
                  r.nbyte + 1,
            LAMBDA b, n :
            Let(  IF n = 3 THEN getbitu(b, 8, 16) + 3 ELSE r.len,
            LAMBDA ln :
            Let(  [r EXCEPT !.buff = b, !.nbyte = n, !.len = ln],
            LAMBDA r1 :
           IF n < 3 \/ n < ln + 3 THEN [r |-> r1, ret |-> 0, calls |-> <<>>]
           ELSE [r |-> [r1 EXCEPT !.nbyte = 0], ret |-> 0, calls |-> <<>>])))

\* a framer that hands every completed frame to the dispatcher, whatever
\* its parity
input_rtcm3_nocheck(r, data) ==
    IF r.nbyte = 0 THEN
        IF data # RTCM3PREAMB THEN [r |-> r, ret |-> 0, calls |-> <<>>]
        ELSE [r |-> [r EXCEPT !.buff = setbyte(r.buff, 0, data), !.nbyte = 1],
              ret |-> 0, calls |-> <<>>]
    ELSE
        Let2(     setbyte(r.buff, r.nbyte, data),
                  r.nbyte + 1,
            LAMBDA b, n :
            Let(  IF n = 3 THEN getbitu(b, 14, 10) + 3 ELSE r.len,
            LAMBDA ln :
            Let(  [r EXCEPT !.buff = b, !.nbyte = n, !.len = ln],
            LAMBDA r1 :
           IF n < 3 \/ n < ln + 3 THEN [r |-> r1, ret |-> 0, calls |-> <<>>]
           ELSE Let(     decode_rtcm3([r1 EXCEPT !.nbyte = 0]),
                    LAMBDA d :
                   [r |-> d.r, ret |-> d.ret,
                    calls |-> <<[type |-> getbitu(b, 24, 12), len |-> ln,
                                 nbyte |-> n, ret |-> d.ret]>>]))))

\* input rtcm 3 message from stream, one byte: the control record, the
\* return value and the dispatcher calls made (message type, length, bytes
\* received, return)
input_rtcm3(r, data) ==
    IF r.nbyte = 0 THEN
        IF data # RTCM3PREAMB THEN [r |-> r, ret |-> 0, calls |-> <<>>]
        ELSE [r |-> [r EXCEPT !.buff = setbyte(r.buff, 0, data), !.nbyte = 1],
              ret |-> 0, calls |-> <<>>]
    ELSE
        Let2(     setbyte(r.buff, r.nbyte, data),
                  r.nbyte + 1,
            LAMBDA b, n :
            Let(  IF n = 3 THEN getbitu(b, 14, 10) + 3 ELSE r.len,
            LAMBDA ln :
            Let(  [r EXCEPT !.buff = b, !.nbyte = n, !.len = ln],
            LAMBDA r1 :
           IF n < 3 \/ n < ln + 3 THEN [r |-> r1, ret |-> 0, calls |-> <<>>]
           ELSE Let(      [r1 EXCEPT !.nbyte = 0],
                    LAMBDA r2 :
                IF rtk_crc24q(b, ln) # getbitu(b, ln * 8, 24)
                THEN [r |-> r2, ret |-> 0, calls |-> <<>>]
                ELSE Let(     decode_rtcm3(r2),
                         LAMBDA d :
                        [r |-> d.r, ret |-> d.ret,
                         calls |-> <<[type |-> getbitu(b, 24, 12), len |-> ln,
                                      nbyte |-> n, ret |-> d.ret]>>])))))

(* --------------------------- frame encoder ----------------------------- *)

\* bit n (0 the least significant) of the unsigned int held as the two
\* 16-bit halves d = <<hi, lo>>
bit32(d, n) ==
    IF n >= 16 THEN (d[1] \div Pow2(n - 16)) % 2 ELSE (d[2] \div Pow2(n)) % 2

\* a setbitu that sets the bits of the field that are 1 in data and
\* clears none
setbit_or(buff, pos, len, d, i) ==
    IF pos <= i /\ i < pos + len /\ bit32(d, pos + len - 1 - i) = 1 THEN 1
    ELSE (buff[i \div 8 + 1] \div Pow2(7 - (i % 8))) % 2

\* bit i of the buffer after setbitu(buff,pos,len,data): the bits of the
\* field come from data, the one under mask=1u<<(len-1) first, the others
\* stay
setbit(buff, pos, len, d, i) ==
    IF pos <= i /\ i < pos + len
    THEN bit32(d, pos + len - 1 - i)
    ELSE (buff[i \div 8 + 1] \div Pow2(7 - (i % 8))) % 2

\* set unsigned bits to byte data, the data held as two 16-bit halves
setbitu32(buff, pos, len, d) ==
    IF len <= 0 \/ 32 < len THEN buff
    ELSE SubSeq([k \in 1..Len(buff) |->
             IF 8 * k <= pos \/ pos + len <= 8 * (k - 1) THEN buff[k]
             ELSE 128 * setbit(buff, pos, len, d, 8 * k - 8)
                  + 64 * setbit(buff, pos, len, d, 8 * k - 7)
                  + 32 * setbit(buff, pos, len, d, 8 * k - 6)
                  + 16 * setbit(buff, pos, len, d, 8 * k - 5)
                  + 8 * setbit(buff, pos, len, d, 8 * k - 4)
                  + 4 * setbit(buff, pos, len, d, 8 * k - 3)
                  + 2 * setbit(buff, pos, len, d, 8 * k - 2)
                  + setbit(buff, pos, len, d, 8 * k - 1)], 1, Len(buff))

\* the two 16-bit halves of a number below 2^31
split16(data) == <<data \div 65536, data % 65536>>

\* set unsigned bits to byte data, the data below 2^31
setbitu(buff, pos, len, data) == setbitu32(buff, pos, len, split16(data))

\* two's complement of a signed value in a field of len bits
Signed(v, len) == IF v < 0 THEN v + Pow2(len) ELSE v

\* the fields <<pos, len, data>> written one after the other
RECURSIVE setfields(_, _, _, _)
setfields(buff, f, lo, hi) ==
    IF lo >= hi THEN buff
    ELSE IF hi = lo + 1 THEN setbitu(buff, f[lo][1], f[lo][2], f[lo][3])
    ELSE Let(     setfields(buff, f, lo, (lo + hi) \div 2),
             LAMBDA b :
            Then(b, setfields(b, f, (lo + hi) \div 2, hi)))

\* a transport frame with a payload of L bytes: preamble, length, the
\* message fields (bit positions counted from the preamble) that fit in
\* the payload, and the parity
Frame(L, f) ==
    Let(       SelectSeq(f, LAMBDA x : x[1] + x[2] <= 24 + 8 * L),
        LAMBDA fit :
        Let(   setfields(<<RTCM3PREAMB, L \div 256, L % 256>>
                         \o [k \in 1..L |-> 0], fit, 1, Len(fit) + 1),
        LAMBDA b :
        Let(   crc24qLoop(b, 0, L + 3, 0),
        LAMBDA crc :
       b \o <<crc \div 65536, (crc \div 256) % 256, crc % 256>>)))

\* the frame with a damaged parity
Damaged(fr) == [fr EXCEPT ![Len(fr)] = (@ + 1) % 256]

(* --------------------------- test messages ----------------------------- *)

\* a message to send: the length L of its payload and its fields
\* <<pos, len, data>>
Layout(L, f) == <<L, f>>

\* header fields of messages 1001-1004
head1001f(type, staid, tow, sync, nsat) ==
    << <<24, 12, type>>, <<36, 12, staid>>, <<48, 30, tow>>, <<78, 1, sync>>,
       <<79, 5, nsat>> >>

\* satellite j (from 0) of a 1004 message: prn with observables made of it
sat1004f(j, prn) ==
    Let(     88 + 125 * j,
        LAMBDA b :
    << <<b, 6, prn>>, <<b + 7, 24, 1000 * prn>>, <<b + 31, 20, Signed(-prn, 20)>>,
       <<b + 51, 7, prn>>, <<b + 58, 8, 70 + prn>>, <<b + 66, 8, 160 + prn>>,
       <<b + 74, 2, 3>>, <<b + 76, 14, Signed(-3, 14)>>, <<b + 90, 20, 5>>,
       <<b + 110, 7, prn>>, <<b + 117, 8, 120 + prn>> >>)

\* satellite j (from 0) of a 1002 message
sat1002f(j, prn) ==
    Let(     88 + 74 * j,
        LAMBDA b :
    << <<b, 6, prn>>, <<b + 7, 24, 1000 * prn>>, <<b + 31, 20, 7>>,
       <<b + 51, 7, prn>>, <<b + 58, 8, 70 + prn>>, <<b + 66, 8, 160 + prn>> >>)

\* the sequences of ss, one after the other
RECURSIVE Flat(_)
Flat(ss) == IF ss = <<>> THEN <<>> ELSE Head(ss) \o Flat(Tail(ss))

msg1001(staid, tow, sync) == Layout(8, head1001f(1001, staid, tow, sync, 0))

msg1002(staid, tow, sync, prns) ==
    Layout((64 + 74 * Len(prns) + 7) \div 8,
          head1001f(1002, staid, tow, sync, Len(prns)) \o Flat([k \in 1..Len(prns) |-> sat1002f(k - 1, prns[k])]))

msg1004(staid, tow, sync, prns) ==
    Layout((64 + 125 * Len(prns) + 7) \div 8,
          head1001f(1004, staid, tow, sync, Len(prns)) \o Flat([k \in 1..Len(prns) |-> sat1004f(k - 1, prns[k])]))

\* a 1004 message that announces two satellites and ends after the first
short1004(staid, tow, sync, prn) ==
    Layout((64 + 125 + 7) \div 8,
          head1001f(1004, staid, tow, sync, 2) \o sat1004f(0, prn))

\* a 1004 message cut after its header although it announces satellites
cut1004(staid, tow, sync) == Layout(7, head1001f(1004, staid, tow, sync, 1))

\* satellite j (from 0) of a 1010 message
sat1010f(j, prn) ==
    Let(     85 + 79 * j,
        LAMBDA b :
    << <<b, 6, prn>>, <<b + 7, 5, 8>>, <<b + 12, 25, 1000 * prn>>,
       <<b + 37, 20, 9>>, <<b + 57, 7, prn>>, <<b + 64, 7, 30 + prn>>,
       <<b + 71, 8, 150 + prn>> >>)

msg1010(staid, tod, sync, prns) ==
    Layout((61 + 79 * Len(prns) + 7) \div 8,
          << <<24, 12, 1010>>, <<36, 12, staid>>, <<48, 27, tod>>, <<75, 1, sync>>,
             <<76, 5, Len(prns)>> >> \o Flat([k \in 1..Len(prns) |-> sat1010f(k - 1, prns[k])]))

\* satellite j (from 0) of a 1012 message
sat1012f(j, prn) ==
    Let(     85 + 130 * j,
        LAMBDA b :
    << <<b, 6, prn>>, <<b + 7, 5, 8>>, <<b + 12, 25, 1000 * prn>>,
       <<b + 37, 20, 9>>, <<b + 57, 7, prn>>, <<b + 64, 7, 30 + prn>>,
       <<b + 71, 8, 150 + prn>>, <<b + 81, 14, Signed(-3, 14)>>,
       <<b + 95, 20, 5>>, <<b + 115, 7, prn>>, <<b + 122, 8, 120 + prn>> >>)

msg1012(staid, tod, sync, prns) ==
    Layout((61 + 130 * Len(prns) + 7) \div 8,
          << <<24, 12, 1012>>, <<36, 12, staid>>, <<48, 27, tod>>, <<75, 1, sync>>,
             <<76, 5, Len(prns)>> >> \o Flat([k \in 1..Len(prns) |-> sat1012f(k - 1, prns[k])]))

\* station messages
msg1005(staid) ==
    Layout(19, << <<24, 12, 1005>>, <<36, 12, staid>>, <<48, 6, 5>>,
                 <<58, 16, 4660>>, <<74, 22, 1193046>> >>)

\* a message of type 1005 with the length of a 1006
long1005(staid) ==
    Layout(21, << <<24, 12, 1005>>, <<36, 12, staid>>, <<48, 6, 5>> >>)

\* mask bits: one bit set per id, the first id at bit pos
maskf(pos, ids) == [k \in 1..Len(ids) |-> <<pos + ids[k] - 1, 1, 1>>]

\* the data bits of an msm 4-7 message with every cell present: ranges
\* and signals made of the satellite ids
msmdataf(m, i, sats, ncell) ==
    Let2(       Len(sats),
                IF msmfmt[m].ext THEN 4 ELSE 0,
        LAMBDA nsat, e :
        Let2(   i + msm_satbits(m) * nsat,
                msmfmt[m],
        LAMBDA c0, f :
       [k \in 1..nsat |-> <<i + 8 * (k - 1), 8, 60 + sats[k]>>]
       \o [k \in 1..nsat |-> <<i + (8 + e) * nsat + 10 * (k - 1), 10, sats[k]>>]
       \o [k \in 1..ncell |-> <<c0 + f.npr * (k - 1), f.npr, Signed(-k, f.npr)>>]
       \o [k \in 1..ncell |->
              <<c0 + f.npr * ncell + f.ncp * (k - 1), f.ncp, 10 + k>>]
       \o [k \in 1..ncell |->
              <<c0 + (f.npr + f.ncp) * ncell + f.nlock * (k - 1), f.nlock, k>>]
       \o [k \in 1..ncell |->
              <<c0 + (f.npr + f.ncp + f.nlock + 1) * ncell + f.ncnr * (k - 1),
                f.ncnr, 40 + k>>]))

\* msm message m (1-7) of the system with first type base; short cuts
\* that many bytes off the end
msgmsm(base, m, staid, tow, sync, sats, sigs, short) ==
    Let(        Len(sats) * Len(sigs),
        LAMBDA n :
        Let(    193 + n,
        LAMBDA i :
        Let2(   IF m < 4 THEN i - 24
                ELSE i - 24 + msm_satbits(m) * Len(sats) + msm_cellbits(m) * n,
                << <<24, 12, base + m - 1>>, <<36, 12, staid>>, <<48, 30, tow>>,
                   <<78, 1, sync>> >>
                \o maskf(97, sats) \o maskf(161, sigs)
                \o [k \in 1..n |-> <<193 + k - 1, 1, 1>>]
                \o (IF m < 4 THEN <<>> ELSE msmdataf(m, i, sats, n)),
        LAMBDA bits, all :
        Let(    (bits + 7) \div 8 - short,
        LAMBDA L :
       Layout(L, all)))))

\* msm message m (4-7) with the lock time indicator lock and the
\* half-cycle ambiguity indicator half in every cell
msgmsmlock(base, m, staid, tow, sync, sats, sigs, lock, half) ==
    Let3(       Len(sats) * Len(sigs),
                msgmsm(base, m, staid, tow, sync, sats, sigs, 0),
                msmfmt[m],
        LAMBDA n, g, f :
        Let(    193 + n + msm_satbits(m) * Len(sats) + (f.npr + f.ncp) * n,
        LAMBDA c :
       Layout(g[1],
              g[2] \o [k \in 1..n |-> <<c + f.nlock * (k - 1), f.nlock, lock>>]
                   \o [k \in 1..n |-> <<c + f.nlock * n + k - 1, 1, half>>])))

\* an msm message that ends with its cell mask, with the mask bits of
\* cells set; short cuts that many bytes off the end
msmhead(type, staid, tow, sync, sats, sigs, cells, short) ==
    Layout((169 + Len(sats) * Len(sigs) + 7) \div 8 - short,
          << <<24, 12, type>>, <<36, 12, staid>>, <<48, 30, tow>>,
             <<78, 1, sync>> >>
          \o maskf(97, sats) \o maskf(161, sigs) \o maskf(193, cells))

\* the length n and the n characters of a descriptor at bit pos: the
\* letters from c on
strf(pos, n, c) ==
    << <<pos, 8, n>> >> \o [k \in 1..n |-> <<pos + 8 * k, 8, c + ((k - 1) % 26)>>]

\* antenna descriptor of n characters and setup id
msg1007(staid, n, setup) ==
    Layout(5 + n, << <<24, 12, 1007>>, <<36, 12, staid>> >> \o strf(48, n, 65)
                  \o << <<56 + 8 * n, 8, setup>> >>)

\* antenna descriptor of n and serial number of m characters
msg1008(staid, n, setup, m) ==
    Layout(6 + n + m,
           << <<24, 12, 1008>>, <<36, 12, staid>> >> \o strf(48, n, 65)
           \o << <<56 + 8 * n, 8, setup>> >> \o strf(64 + 8 * n, m, 97))

\* antenna descriptor of n, antenna serial number of m, receiver type of
\* n1, firmware version of n2 and receiver serial number of n3 characters
msg1033(staid, n, setup, m, n1, n2, n3) ==
    Layout(9 + n + m + n1 + n2 + n3,
           << <<24, 12, 1033>>, <<36, 12, staid>> >> \o strf(48, n, 65)
           \o << <<56 + 8 * n, 8, setup>> >> \o strf(64 + 8 * n, m, 97)
           \o strf(72 + 8 * (n + m), n1, 66)
           \o strf(80 + 8 * (n + m + n1), n2, 48)
           \o strf(88 + 8 * (n + m + n1 + n2), n3, 98))

\* ephemeris messages; the fields left out are zero
msg1019(prn, week, iode, iodc) ==
    Layout(61, << <<24, 12, 1019>>, <<36, 6, prn>>, <<42, 10, week>>,
                 <<72, 8, iode>>, <<142, 10, iodc>>, <<152, 16, Signed(-5, 16)>>,
                 <<280, 16, 41200>>, <<312, 16, 3600>> >>)

msg1020(prn, tb, bn) ==
    Layout(45, << <<24, 12, 1020>>, <<36, 6, prn>>, <<42, 5, 8>>, <<51, 5, 9>>,
                 <<63, 1, bn>>, <<65, 7, tb>> >>)

msg1044(prn, week, iode, iodc) ==
    Layout(61, << <<24, 12, 1044>>, <<36, 4, prn>>, <<102, 8, iode>>,
                 <<270, 16, 3600>>, <<470, 10, week>>, <<498, 10, iodc>> >>)

msg1045(type, prn, week, iode) ==
    Layout(IF type = 1045 THEN 62 ELSE 63,
          << <<24, 12, type>>, <<36, 6, prn>>, <<42, 12, week>>, <<54, 10, iode>>,
             <<318, 14, 960>> >>)

msg1042(type, prn, week, iode, iodc, toes) ==
    Layout(64, << <<24, 12, type>>, <<36, 6, prn>>, <<42, 13, week>>,
                 <<73, 5, iode>>, <<152, 5, iodc>>, <<323, 17, toes>> >>)

\* an ephemeris message cut one byte short
cut1019(prn) == Layout(60, << <<24, 12, 1019>>, <<36, 6, prn>> >>)

\* ssr messages of gps and glonass with one satellite
msgssr1(sync, prn, iode, deph) ==
    Layout(26, << <<24, 12, 1057>>, <<36, 20, 345600>>, <<60, 1, sync>>,
                 <<62, 4, 3>>, <<86, 6, 1>>, <<92, 6, prn>>, <<98, 8, iode>>,
                 <<106, 22, Signed(deph, 22)>> >>)

msgssr2(sync, prn, dclk) ==
    Layout(18, << <<24, 12, 1064>>, <<36, 17, 43200>>, <<57, 1, sync>>,
                 <<82, 6, 1>>, <<88, 5, prn>>, <<93, 22, Signed(dclk, 22)>> >>)

msgssr3(sync, prn, mode, bias) ==
    Layout(16, << <<24, 12, 1059>>, <<36, 20, 345600>>, <<60, 1, sync>>,
                 <<85, 6, 1>>, <<91, 6, prn>>, <<97, 5, 1>>, <<102, 5, mode>>,
                 <<107, 14, Signed(bias, 14)>> >>)

\* an ssr 1 message that announces two satellites and ends after the
\* first
shortssr1(sync, prn, iode, deph) ==
    Layout(26, << <<24, 12, 1057>>, <<36, 20, 345600>>, <<60, 1, sync>>,
                 <<62, 4, 3>>, <<86, 6, 2>>, <<92, 6, prn>>, <<98, 8, iode>>,
                 <<106, 22, Signed(deph, 22)>> >>)

\* an ssr message cut inside its header
cutssr(type) == Layout(6, << <<24, 12, type>>, <<36, 20, 345600>> >>)

\* a message with only its type number
msgtype(type) == Layout(2, << <<24, 12, type>> >>)

(* ----------------------------- streams --------------------------------- *)

\* number of steps of a run on an observation or ephemeris stream, on the
\* framing stream and on the mixed stream
MaxFrames == 3

MaxBytes == 3

MaxMixed == 2

\* the messages of each kind of stream
ObsFrames == <<
    msg1004(1, 345600000, 1, <<3, 4>>),
    msg1004(1, 345600000, 0, <<5>>),
    msg1002(1, 345600000, 0, <<7>>),
    msg1004(2, 345601000, 1, <<3>>),
    msgmsm(1071, 4, 1, 345600000, 1, <<8, 11, 12>>, <<2>>, 0),
    msgmsm(1071, 4, 2, 345601000, 1, <<3>>, <<2>>, 0),
    msg1010(1, 54000000, 0, <<2>>),
    msg1005(2),
    cut1004(2, 345601000, 1) >>

EphFrames == <<
    msg1019(3, 60, 10, 10),
    msg1019(3, 60, 10, 266),
    msg1019(0, 60, 10, 10),
    msg1020(2, 12, 0),
    msg1044(1, 60, 10, 10),
    msg1045(1045, 4, 1084, 20),
    msg1045(1046, 4, 1084, 20),
    msg1042(1042, 5, 752, 1, 1, 450),
    msg1042(63, 5, 752, 1, 1, 900) >>

MixFrames == <<
    msg1004(1, 345600000, 0, <<3>>),
    msg1002(1, 345600000, 1, <<7>>),
    msg1001(1, 345601000, 0),
    msgmsm(1091, 5, 1, 345600000, 0, <<8>>, <<2>>, 0),
    msgmsm(1121, 2, 3, 345600000, 0, <<8>>, <<2>>, 0),
    msg1005(1),
    long1005(1),
    msg1019(3, 60, 10, 10),
    msg1020(2, 40, 0),
    msg1020(40, 40, 0),
    msgssr1(0, 3, 10, -7),
    msgssr2(1, 2, 9),
    msgssr3(0, 3, 2, -5),
    cutssr(1060),
    short1004(1, 345600000, 0, 4),
    shortssr1(0, 5, 11, -9),
    msgtype(1013),
    msgtype(1230),
    msgtype(1029),
    msgtype(4001) >>

MsmFrames == <<
    msmhead(1092, 1, 345600000, 0, <<1, 2, 3>>, <<2, 8, 14>>, <<1, 3, 4>>, 0),
    msmhead(1073, 1, 345600000, 1, <<1, 2, 3, 4, 5, 6, 7, 8>>,
            <<2, 3, 4, 8, 9, 10, 15, 16>>, <<1, 64>>, 0),
    msmhead(1071, 1, 345600000, 1, <<1, 2, 3, 4, 5, 6, 7, 8, 9>>,
            <<2, 3, 4, 8, 9, 10, 15, 16>>, <<>>, 0),
    msmhead(1072, 2, 345600000, 1, <<1>>, <<1, 2>>, <<1>>, 0),
    msmhead(1072, 1, 345600000, 1, <<1, 2, 3, 4>>, <<2, 3, 4, 8>>, <<1, 2>>, 1),
    msgmsm(1071, 4, 1, 345600000, 0, <<5>>, <<2, 4>>, 0),
    msgmsm(1071, 4, 1, 345600000, 0, <<6>>, <<2, 3, 4>>, 0),
    msgmsm(1091, 4, 1, 345600000, 1, <<2>>, <<2, 22>>, 0),
    msgmsmlock(1071, 4, 1, 345600000, 0, <<7>>, <<2>>, 0, 1),
    msgmsm(1071, 4, 1, 345600000, 0, <<6, 7, 40>>, <<1, 2, 3, 4>>, 0) >>

StaFrames == <<
    msg1007(1, 3, 9),
    msg1007(1, 31, 9),
    msg1007(1, 40, 9),
    msg1008(1, 5, 2, 33),
    msg1008(2, 40, 2, 4),
    msg1033(1, 4, 7, 0, 32, 2, 31),
    msg1033(1, 2, 7, 3, 1, 35, 0) >>

LegacyFrames == <<
    msg1004(1, 345600000, 0, <<3, 42>>),
    msg1002(1, 345600000, 0, <<41>>),
    msg1010(1, 54000000, 0, <<2, 41>>),
    msg1012(1, 54000000, 0, <<42, 3>>),
    msg1004(1, 345600000, 0, <<63>>) >>

SsrFrames == <<
    msgssr3(0, 3, 2, -5),
    msgssr3(0, 3, 16, 6),
    msgssr3(0, 3, 17, -5),
    msgssr3(1, 4, 18, 7),
    msgssr3(0, 4, 31, 9),
    msgssr1(0, 3, 10, -7) >>

FramingFrames == <<
    Layout(0, <<>>),
    Layout(1, << <<24, 8, 211>> >>),
    Layout(2, << <<24, 12, 1001>> >>),
    Layout(2, << <<24, 12, 1013>> >>),
    msg1005(1) >>

Menus ==
    [framing |-> FramingFrames, observ |-> ObsFrames, ephem |-> EphFrames,
     mixed |-> MixFrames, msm |-> MsmFrames, station |-> StaFrames,
     ssr |-> SsrFrames, legacy |-> LegacyFrames]

\* the transport frames of the messages of each kind of stream
Frames ==
    [s \in DOMAIN Menus |->
        SubSeq([k \in 1..Len(Menus[s]) |-> Frame(Menus[s][k][1], Menus[s][k][2])],
               1, Len(Menus[s]))]

\* the kinds of stream
Streams == {"framing", "observ", "ephem", "mixed", "msm", "station", "ssr",
            "legacy"}

\* single bytes that reach the receiver outside of a message
Bytes == [framing |-> {211, 0, 1}, observ |-> {}, ephem |-> {},
          mixed |-> {211}, msm |-> {}, station |-> {}, ssr |-> {},
          legacy |-> {}]

\* whether the line of each kind of stream has transmission errors
Noisy == [framing |-> TRUE, observ |-> FALSE, ephem |-> FALSE, mixed |-> FALSE,
          msm |-> FALSE, station |-> FALSE, ssr |-> FALSE, legacy |-> FALSE]

\* a code option: -GLxx for GPS, -RLxx for GLO, -ELxx for GAL
CodeOpt(sys, str) == [sys |-> sys, str |-> str]

\* receiver options in use on each kind of stream
Opts ==
    [framing |-> {NoOpt},
     observ  |-> {NoOpt, [NoOpt EXCEPT !.STA = <<1>>]},
     ephem   |-> {NoOpt, [NoOpt EXCEPT !.EPHALL = TRUE]},
     mixed   |-> {NoOpt, [NoOpt EXCEPT !.EPHALL = TRUE, !.RT_INP = TRUE]},
     msm     |-> {NoOpt,
                  [NoOpt EXCEPT !.codes = <<CodeOpt("GPS", <<"1", "W">>)>>],
                  [NoOpt EXCEPT !.codes = <<CodeOpt("GPS", <<"1", "W">>),
                                            CodeOpt("GPS", <<"1", "C">>)>>],
                  [NoOpt EXCEPT !.codes = <<CodeOpt("GPS", <<"2">>),
                                            CodeOpt("GLO", <<"1", "P">>),
                                            CodeOpt("GAL", <<"5", "Q">>)>>]},
     station |-> {NoOpt},
     ssr     |-> {NoOpt},
     legacy  |-> {NoOpt}]

\* readings of the host clock, in the order they can follow each other:
\* not readable, not set since power-up, set
Clocks == << <<0, 0, 0, 0, 0, 0>>, <<1970, 1, 1, 0, 0, 5>>,
             <<2020, 6, 1, 12, 0, 0>>, <<2020, 6, 1, 12, 0, 7>> >>

\* readings the clock can have when the receiver starts, on each kind of
\* stream
Boot == [framing |-> {2}, observ |-> {2, 3}, ephem |-> {2}, mixed |-> {3},
         msm |-> {3}, station |-> {3}, ssr |-> {3}, legacy |-> {3}]

\* contents of memory the program has not written: what malloc returns
\* and what lies behind the end of a table
Heaps == [framing |-> {0, 255}, observ |-> {0}, ephem |-> {0},
          mixed |-> {0, 255}, msm |-> {0}, station |-> {0}, ssr |-> {0, 1, 255},
          legacy |-> {0}]

(* --------------------------- state machine ----------------------------- *)

\* what one call of input_rtcm3 leaves: the control record, the return
\* value and the dispatcher calls made
FeedOne(x) == [r |-> x.r, rets |-> <<x.ret>>, calls |-> x.calls]

\* what two runs of calls leave, one after the other
FeedBoth(a, c) ==
    [rets |-> a.rets \o c.rets, calls |-> a.calls \o c.calls, r |-> c.r]

\* bytes i..end-1 (from 1) fed one by one to input_rtcm3, the range
\* taken in two parts at mid
RECURSIVE FeedLoop(_, _, _, _, _)
FeedLoop(r, bytes, i, end, mid) ==
    IF i >= end THEN [r |-> r, rets |-> <<>>, calls |-> <<>>]
    ELSE IF end = i + 1 THEN FeedOne(input_rtcm3(r, bytes[i]))
    ELSE Let(     FeedLoop(r, bytes, i, mid, (i + mid) \div 2),
             LAMBDA a :
            FeedBoth(a, FeedLoop(a.r, bytes, mid, end, (mid + end) \div 2)))

\* the receiver's loop over the bytes read
Feed(r, bytes) == FeedLoop(r, bytes, 1, Len(bytes) + 1, Len(bytes))

\* number of steps of a run on each kind of stream
Steps ==
    CASE stream = "framing" -> MaxBytes
      [] stream \in {"mixed", "msm"} -> MaxMixed
      [] OTHER -> MaxFrames

\* nothing fed yet
NoInput == [kind |-> "init", bytes |-> <<>>, rets |-> <<>>, calls |-> <<>>,
            clock |-> <<>>]

\* no library function called on its own
NoCall == [fn |-> "none"]

\* the sketch imu_decode is not the program running
NoImu == [state |-> "off"]

\* the sketch record_rtcm is not the program running
NoSd == [state |-> "off"]

\* after init_rtcm and the host's choice of options, on a stream of kind s
InitOn(s) ==
    /\ stream = s
    /\ call = NoCall
    /\ imu = NoImu
    /\ sd = NoSd
    /\ \E o \in Opts[s] : rtcm = [init_rtcm EXCEPT !.opt = o]
    /\ prev = rtcm
    /\ io = NoInput
    /\ last = NoInput
    /\ nfed = 0
    /\ clock \in {Clocks[k] : k \in Boot[s]}
    /\ heap \in Heaps[s]

Init == InitOn("mixed")

\* what may arrive on a stream of kind s: a whole message, a message
\* with a transmission error, or a stray byte
Arrivals ==
    [s \in DOMAIN Menus |->
        {[kind |-> "frame", bytes |-> Frames[s][k]] : k \in 1..Len(Frames[s])}
        \cup {[kind |-> "damaged", bytes |-> Damaged(Frames[s][k])] :
                   k \in {j \in 1..Len(Frames[s]) : Noisy[s]}}
        \cup {[kind |-> "byte", bytes |-> <<b>>] : b \in Bytes[s]}]

\* the receiver reads the bytes that arrived and hands each of them to
\* input_rtcm3
Input ==
    \E m \in Arrivals[stream] :
    Let(     Feed(rtcm, m.bytes),
        LAMBDA f :
    /\ nfed < Steps
    /\ rtcm' = f.r
    /\ prev' = rtcm
    /\ io' = [kind |-> m.kind, bytes |-> m.bytes, rets |-> f.rets,
              calls |-> f.calls, clock |-> clock]
    /\ last' = io
    /\ nfed' = nfed + 1
    /\ UNCHANGED <<clock, heap, stream, call, imu, sd>>)

\* the host clock moves on between two messages
Tick ==
    /\ nfed < Steps
    /\ \E k \in 1..(Len(Clocks) - 1) : clock = Clocks[k] /\ clock' = Clocks[k + 1]
    /\ nfed' = nfed + 1
    /\ UNCHANGED <<rtcm, prev, io, last, heap, stream, call, imu, sd>>

\* a receiver on a stream of all kinds of messages
Next == Input \/ Tick

Spec == Init /\ [][Next]_vars

\* a receiver on a line with transmission errors
NextFraming == Input

SpecFraming == InitOn("framing") /\ [][NextFraming]_vars

\* a receiver on a stream of observation and station messages
NextObs == Input

SpecObs == InitOn("observ") /\ [][NextObs]_vars

\* a receiver on a stream of ephemeris messages
NextEph == Input \/ Tick

SpecEph == InitOn("ephem") /\ [][NextEph]_vars

\* a receiver on a stream of msm messages, with code options
NextMsm == Input

SpecMsm == InitOn("msm") /\ [][NextMsm]_vars

\* a receiver on a stream of legacy observation messages of gps, glonass
\* and sbas satellites
NextLegacy == Input

SpecLegacy == InitOn("legacy") /\ [][NextLegacy]_vars

\* a receiver on a stream of ssr messages
NextSsr == Input

SpecSsr == InitOn("ssr") /\ [][NextSsr]_vars

\* a receiver on a stream of antenna and receiver descriptors
NextSta == Input

SpecSta == InitOn("station") /\ [][NextSta]_vars

(* ------------------------------ bit codec ------------------------------ *)

\* the receiver's record left alone, for a program that calls a library
\* function on its own
Aside(s) ==
    /\ stream = s
    /\ rtcm = init_rtcm
    /\ prev = rtcm
    /\ io = NoInput
    /\ last = NoInput
    /\ nfed = 0
    /\ clock = Clocks[3]
    /\ heap = 0

\* byte buffers the bit codec is called on
BitBuffers == {<<0, 0, 0, 0, 0, 0>>, <<255, 255, 255, 255, 255, 255>>,
               <<165, 90, 195, 60, 15, 240>>}

\* bit positions and bit lengths of the calls; a field ends within the
\* buffer
BitPos == {0, 1, 5, 8, 13}

MaxBitLen == 35

\* the bit lengths of the calls: a negative one, zero, and every length
\* up to MaxBitLen
BitLens == {-1} \cup (0..MaxBitLen)

\* the low n bits of the unsigned int d, as two 16-bit halves
low32(d, n) ==
    IF n >= 32 THEN d
    ELSE IF n >= 16 THEN <<d[1] % Pow2(n - 16), d[2]>>
    ELSE <<0, d[2] % Pow2(n)>>

\* data words written: the low bits of three patterns
BitData ==
    {low32(d, n) : d \in {<<65535, 65535>>, <<43690, 21845>>, <<32768, 1>>},
                   n \in 0..32}

\* a buffer, a field and a data word are chosen
InitBits ==
    /\ Aside("bits")
    /\ imu = NoImu
    /\ sd = NoSd
    /\ \E b \in BitBuffers, p \in BitPos, l \in BitLens, d \in BitData :
          call = [fn |-> "none", buff |-> b, pos |-> p, len |-> l, data |-> d,
                  old |-> b, bitu |-> <<0, 0>>, bits |-> 0]

\* setbitu(buff,pos,len,data)
SetBits ==
    /\ call.fn = "none"
    /\ call' = [call EXCEPT !.fn = "setbitu",
                            !.buff = setbitu32(call.buff, call.pos, call.len, call.data)]
    /\ UNCHANGED <<rtcm, prev, io, last, nfed, clock, heap, stream, imu, sd>>

\* getbitu(buff,pos,len) and getbits(buff,pos,len) on the buffer as it is
GetBits ==
    /\ call.fn \in {"none", "setbitu"}
    /\ call' = [call EXCEPT !.fn = IF call.fn = "none" THEN "getbitu" ELSE "setgetbitu",
                            !.bitu = getbitu32(call.buff, call.pos, call.len),
                            !.bits = getbits(call.buff, call.pos, call.len)]
    /\ UNCHANGED <<rtcm, prev, io, last, nfed, clock, heap, stream, imu, sd>>

NextBits == SetBits \/ GetBits

\* a program that writes a field and reads it back
SpecBits == InitBits /\ [][NextBits]_vars

(* ------------------------------ parity ---------------------------------- *)

\* byte values the parity is computed over
CrcBytes == {0, 1, 128, 211, 255}

\* byte strings handed to rtk_crc24q: every single byte, the strings of
\* two and three of the byte values, and a whole 1005 frame
CrcStrings ==
    {<<b>> : b \in 0..255}
    \cup {<<a, b>> : a \in CrcBytes, b \in CrcBytes}
    \cup {<<a, b, c>> : a \in CrcBytes, b \in CrcBytes, c \in CrcBytes}
    \cup {Frames["framing"][5]}

\* a byte string and the number of its bytes to take are chosen
InitCrc ==
    /\ Aside("parity")
    /\ imu = NoImu
    /\ sd = NoSd
    /\ \E b \in CrcStrings, n \in {0, 1, 2, 3, 22, 25} :
          /\ n <= Len(b)
          /\ call = [fn |-> "none", buff |-> b, len |-> n, crc |-> 0]

\* rtk_crc24q(buff,len)
Crc24q ==
    /\ call.fn = "none"
    /\ call' = [call EXCEPT !.fn = "rtk_crc24q",
                            !.crc = rtk_crc24q(call.buff, call.len)]
    /\ UNCHANGED <<rtcm, prev, io, last, nfed, clock, heap, stream, imu, sd>>

NextCrc == Crc24q

\* a program that computes the parity of a byte string
SpecCrc == InitCrc /\ [][NextCrc]_vars

(* ------------------------------ rollovers ------------------------------- *)

\* times of week, in ms, of the time tags decoded
Tows == {0, 100000, 302400000, 302500000, 302501000, 604700000, 604799999}

\* number of time tags decoded in a run
MaxTags == 3

\* a fresh record; the host clock is unreadable, not set or set
InitWeek ==
    /\ stream = "week"
    /\ rtcm = init_rtcm
    /\ prev = rtcm
    /\ io = NoInput
    /\ last = NoInput
    /\ nfed = 0
    /\ clock \in {Clocks[1], Clocks[2], Clocks[3]}
    /\ heap = 0
    /\ call = NoCall
    /\ imu = NoImu
    /\ sd = NoSd

\* a decoder hands the time of week of a message to adjweek
AdjWeek ==
    \E tow \in Tows :
        /\ nfed < MaxTags
        /\ call.fn \in {"none", "adjweek"}
        /\ rtcm' = adjweek(rtcm, tow)
        /\ prev' = rtcm
        /\ call' = [fn |-> "adjweek", tow |-> tow]
        /\ nfed' = nfed + 1
        /\ UNCHANGED <<io, last, clock, heap, stream, imu, sd>>

\* a decoder hands the 10-bit week number of a gps or qzss ephemeris to
\* adjgpsweek
AdjGpsWeek ==
    \E week \in 0..1023 :
        /\ call.fn = "none"
        /\ call' = [fn |-> "adjgpsweek", week |-> week, out |-> adjgpsweek(week)]
        /\ UNCHANGED <<rtcm, prev, io, last, nfed, clock, heap, stream, imu, sd>>

\* a decoder hands the 13-bit week number of a beidou ephemeris to
\* adjbdtweek
AdjBdtWeek ==
    \E week \in 0..8191 :
        /\ call.fn = "none"
        /\ call' = [fn |-> "adjbdtweek", week |-> week, out |-> adjbdtweek(week)]
        /\ UNCHANGED <<rtcm, prev, io, last, nfed, clock, heap, stream, imu, sd>>

NextWeek == AdjWeek \/ AdjGpsWeek \/ AdjBdtWeek

\* a decoder that resolves the rollovers of the times it decodes
SpecWeek == InitWeek /\ [][NextWeek]_vars

(* ------------------------------ lock time ------------------------------- *)

\* satellites, frequency slots and lock time indicators of the
\* observables decoded
LockSats == {1, 2, MAXSAT}

LockFreqs == {0, NFREQ + NEXOBS - 1}

Locks == {0, 1, 5, 127}

\* number of observables decoded in a run
MaxLocks == 3

\* a fresh record: no lock time stored
InitLock == Aside("lock") /\ call = NoCall /\ imu = NoImu /\ sd = NoSd

\* a decoder hands the lock time indicator of an observable to lossoflock
LossOfLock ==
    \E sat \in LockSats, freq \in LockFreqs, lock \in Locks :
    Let(     lossoflock(rtcm, sat, freq, lock),
        LAMBDA l :
        /\ nfed < MaxLocks
        /\ rtcm' = l.r
        /\ prev' = rtcm
        /\ call' = [fn |-> "lossoflock", sat |-> sat, freq |-> freq,
                    lock |-> lock, lli |-> l.lli]
        /\ nfed' = nfed + 1
        /\ UNCHANGED <<io, last, clock, heap, stream, imu, sd>>)

NextLock == LossOfLock

\* a decoder that follows the lock time of the observables
SpecLock == InitLock /\ [][NextLock]_vars

(* ---------------------------- carrier phase ---------------------------- *)

\* satellites, frequency slots and carrier phases (1/1000 cycle) of the
\* observables decoded
CpSats == {1, MAXSAT}

CpFreqs == {0, 1}

Cps == {0, 100000, 800000, 0 - 800000}

\* number of carrier phases decoded in a run
MaxCps == 3

\* a fresh record: no carrier phase stored; the caller keeps what it
\* handed over and what it got back
InitCp ==
    /\ Aside("cp")
    /\ call = [fn |-> "none", hist |-> <<>>]
    /\ imu = NoImu /\ sd = NoSd

\* a decoder hands the carrier phase of an observable to adjcp
AdjCp ==
    \E sat \in CpSats, freq \in CpFreqs, cp \in Cps :
    Let(     adjcp(rtcm, sat, freq, cp),
        LAMBDA a :
        /\ nfed < MaxCps
        /\ rtcm' = a.r
        /\ prev' = rtcm
        /\ call' = [fn |-> "adjcp",
                    hist |-> Append(call.hist, [sat |-> sat, freq |-> freq,
                                                cp |-> cp, out |-> a.cp])]
        /\ nfed' = nfed + 1
        /\ UNCHANGED <<io, last, clock, heap, stream, imu, sd>>)

NextCp == AdjCp

\* a decoder that follows the carrier phase of the observables
SpecCp == InitCp /\ [][NextCp]_vars

(* ----------------------------- msm signals ----------------------------- *)

\* satellite systems with a table of msm signals
SigSystems == {"GPS", "GLO", "GAL", "QZS", "SBS", "CMP"}

\* number of signal ids looked up in a run
MaxSigs == 2

\* before the first signal id is looked up
InitSig ==
    /\ Aside("sig")
    /\ call = [fn |-> "none"]
    /\ imu = NoImu /\ sd = NoSd

\* save_msm_obs takes the string of signal id sig of system sys from the
\* table of the system and hands it to obs2code
SigCode ==
    \E sys \in SigSystems, sig \in 1..32 :
        /\ nfed < MaxSigs
        /\ call' = [fn |-> "obs2code", sys |-> sys, sig |-> sig,
                    obs |-> msm_sig[sys][sig],
                    code |-> obs2code(msm_sig[sys][sig])[1],
                    freq |-> obs2code(msm_sig[sys][sig])[2]]
        /\ nfed' = nfed + 1
        /\ UNCHANGED <<rtcm, prev, io, last, clock, heap, stream, imu, sd>>

NextSig == SigCode

\* the signal ids of the msm signal tables through obs2code
SpecSig == InitSig /\ [][NextSig]_vars

(* ------------------------------ imu_decode ----------------------------- *)

FRAME_HEAD1 == 90

FRAME_HEAD2 == 165

IMU_DATA_LENGTH == 82

\* sizeof(HipNucIMU): the packed struct of tag, id, rev[2], pressure,
\* timestamp and sixteen floats
sizeofHipNucIMU == 1 + 1 + 2 + 4 + 4 + 4 * (3 + 3 + 3 + 3 + 4)

\* number of items of the queue imu_q
QueueLength == 10

\* C operator ^ on 16-bit operands
Xor16(a, b) == 256 * Xor8(a \div 256, b \div 256) + Xor8(a % 256, b % 256)

\* one round of the inner loop of crc16_update on the low 16 bits of crc
crc16_shift(crc) ==
    IF crc >= 32768 THEN Xor16((2 * crc) % 65536, 4129) ELSE 2 * crc

\* the body of the outer loop of crc16_update for one byte
crc16_byte(crc, byte) ==
    crc16_shift(crc16_shift(crc16_shift(crc16_shift(
    crc16_shift(crc16_shift(crc16_shift(crc16_shift(
        Xor16(crc, 256 * byte)))))))))

\* crc16_update over the bytes i..end-1 (from 1) of src, the range taken
\* in two halves; the 16 bits that are stored back in *currectCrc
RECURSIVE crc16_update(_, _, _, _)
crc16_update(crc, src, i, end) ==
    IF i >= end THEN crc
    ELSE IF end = i + 1 THEN crc16_byte(crc, src[i])
    ELSE Let(crc16_update(crc, src, i, (i + end) \div 2),
             LAMBDA c : Then(c, crc16_update(c, src, (i + end) \div 2, end)))

\* the checksum loop() computes over a buffered frame: the first 4 bytes,
\* then the sizeof(HipNucIMU) bytes from buffer+6 on
checksum16(buffer) ==
    crc16_update(crc16_update(0, buffer, 1, 5), buffer, 7, 7 + sizeofHipNucIMU)

\* a send that puts the item over the last one of a full queue
xQueueSend_overwrite(q, item) ==
    IF Len(q) < QueueLength THEN Append(q, item) ELSE [q EXCEPT ![Len(q)] = item]

\* xQueueSend(imu_q,&item,0): the item is copied to the back of the queue
\* unless the queue is full
xQueueSend(q, item) == IF Len(q) < QueueLength THEN Append(q, item) ELSE q

\* the parser back at the start of a frame
reset(p) ==
    [p EXCEPT !.state = "WAIT_FOR_HEADER1", !.buffer = <<>>, !.length1 = 0,
              !.length2 = 0, !.length = 0, !.crc1 = 0, !.crc2 = 0, !.crc = 0]

\* an end of a frame that does not count the frames with a wrong checksum
frame_end_uncounted(p) ==
    Let(     checksum16(p.buffer),
        LAMBDA checksum :
        IF p.crc = checksum
        THEN [p EXCEPT !.checksum = checksum,
                       !.imu_data = SubSeq(p.buffer, 7, 6 + sizeofHipNucIMU),
                       !.imu_q = xQueueSend(@, SubSeq(p.buffer, 7, 6 + sizeofHipNucIMU)),
                       !.sends = Append(@, SubSeq(p.buffer, 7, 6 + sizeofHipNucIMU)),
                       !.lost = IF Len(p.imu_q) < QueueLength THEN @
                                ELSE Append(@, SubSeq(p.buffer, 7, 6 + sizeofHipNucIMU)),
                       !.waiting = Len(p.imu_q),
                       !.pc = "right_frames++"]
        ELSE reset([p EXCEPT !.checksum = checksum]))

\* the end of a frame in READ_PAYLOAD up to the call of xQueueSend: p has
\* the last byte stored
frame_end(p) ==
    Let(     checksum16(p.buffer),
        LAMBDA checksum :
        IF p.crc = checksum
        THEN [p EXCEPT !.checksum = checksum,
                       !.imu_data = SubSeq(p.buffer, 7, 6 + sizeofHipNucIMU),
                       !.imu_q = xQueueSend(@, SubSeq(p.buffer, 7, 6 + sizeofHipNucIMU)),
                       !.sends = Append(@, SubSeq(p.buffer, 7, 6 + sizeofHipNucIMU)),
                       !.lost = IF Len(p.imu_q) < QueueLength THEN @
                                ELSE Append(@, SubSeq(p.buffer, 7, 6 + sizeofHipNucIMU)),
                       !.waiting = Len(p.imu_q),
                       !.pc = "right_frames++"]
        ELSE reset([p EXCEPT !.checksum = checksum, !.wrong_frames = @ + 1]))

\* a case WAIT_FOR_HEADER2 that takes a second 0x5A as the first header
\* byte of a frame
header2_rescan(p, b) ==
    IF b = FRAME_HEAD2
    THEN [p EXCEPT !.state = "READ_LENGTH1", !.buffer = Append(@, b)]
    ELSE IF b = FRAME_HEAD1 THEN [p EXCEPT !.buffer = <<b>>]
    ELSE [p EXCEPT !.state = "WAIT_FOR_HEADER1", !.buffer = <<>>]

\* the case WAIT_FOR_HEADER2 of the switch
header2(p, b) ==
    IF b = FRAME_HEAD2
    THEN [p EXCEPT !.state = "READ_LENGTH1", !.buffer = Append(@, b)]
    ELSE [p EXCEPT !.state = "WAIT_FOR_HEADER1", !.buffer = <<>>]

\* the switch of loop() on the byte b read from the serial line
parse(p, b) ==
    CASE p.state = "WAIT_FOR_HEADER1" ->
           IF b = FRAME_HEAD1
           THEN [p EXCEPT !.state = "WAIT_FOR_HEADER2", !.buffer = Append(@, b)]
           ELSE p
      [] p.state = "WAIT_FOR_HEADER2" -> header2(p, b)
      [] p.state = "READ_LENGTH1" ->
           [p EXCEPT !.length1 = b, !.state = "READ_LENGTH2", !.buffer = Append(@, b)]
      [] p.state = "READ_LENGTH2" ->
           IF 256 * b + p.length1 # sizeofHipNucIMU
           THEN [p EXCEPT !.length2 = b, !.length = 256 * b + p.length1,
                          !.state = "WAIT_FOR_HEADER1", !.buffer = <<>>]
           ELSE [p EXCEPT !.length2 = b, !.length = 256 * b + p.length1,
                          !.state = "READ_CHECKSUM1", !.buffer = Append(@, b)]
      [] p.state = "READ_CHECKSUM1" ->
           [p EXCEPT !.crc1 = b, !.state = "READ_CHECKSUM2", !.buffer = Append(@, b)]
      [] p.state = "READ_CHECKSUM2" ->
           [p EXCEPT !.crc2 = b, !.crc = 256 * b + p.crc1,
                     !.state = "READ_PAYLOAD", !.buffer = Append(@, b)]
      [] p.state = "READ_PAYLOAD" ->
           IF Len(p.buffer) + 1 >= IMU_DATA_LENGTH
           THEN frame_end([p EXCEPT !.buffer = Append(@, b)])
           ELSE [p EXCEPT !.buffer = Append(@, b)]

\* a HipNucIMU struct as its bytes: tag 0x91 and the timestamp t
ImuData(t) ==
    [j \in 1..sizeofHipNucIMU |-> IF j = 1 THEN 145 ELSE IF j = 9 THEN t ELSE 0]

\* the frame the sensor sends for a payload: header, length, checksum
\* (low byte first) and payload
ImuFrame(data) ==
    Let(     crc16_update(crc16_update(0, <<FRAME_HEAD1, FRAME_HEAD2,
                              sizeofHipNucIMU % 256, sizeofHipNucIMU \div 256>>, 1, 5),
                          data, 1, Len(data) + 1),
        LAMBDA c :
        <<FRAME_HEAD1, FRAME_HEAD2, sizeofHipNucIMU % 256, sizeofHipNucIMU \div 256,
          c % 256, c \div 256>> \o data)

\* the frames of the payloads with the timestamps lo..hi, one after the
\* other
RECURSIVE ImuFrames(_, _)
ImuFrames(lo, hi) ==
    IF lo > hi THEN <<>>
    ELSE IF lo = hi THEN ImuFrame(ImuData(lo))
    ELSE ImuFrames(lo, (lo + hi) \div 2) \o ImuFrames((lo + hi) \div 2 + 1, hi)

\* number of frames of the long line: enough to fill the queue
MaxImuFrames == 12

\* what the sensor line can carry: a frame after a stray first header
\* byte, after a first header byte and another byte, after a header with
\* a wrong length, after a frame with a damaged byte, and a long run of
\* frames with a damaged one among them
ImuLines == <<
    <<FRAME_HEAD1>> \o ImuFrames(1, 2),
    <<FRAME_HEAD1, 7>> \o ImuFrames(1, 1),
    <<7, FRAME_HEAD2, FRAME_HEAD1, FRAME_HEAD2, 77, 0>> \o ImuFrames(1, 1),
    [ImuFrames(1, 1) EXCEPT ![20] = 1] \o ImuFrames(2, 2),
    ImuFrames(1, 2) \o [ImuFrames(3, 3) EXCEPT ![IMU_DATA_LENGTH] = 1]
        \o ImuFrames(4, MaxImuFrames) >>

\* after setup(): the parser waits for a header, the queue is empty, the
\* task has received nothing; line is the sensor line and pos the number
\* of its bytes read so far, was and b the state and the byte of the last
\* turn of the switch, sends the items handed to xQueueSend, lost those of
\* them that were not queued, waiting the number of items in the queue at
\* the last call of xQueueSend, received the items process_task took
InitImu ==
    /\ Aside("imu")
    /\ call = NoCall
    /\ sd = NoSd
    /\ \E k \in 1..Len(ImuLines) :
          imu = [line |-> k, pos |-> 0, was |-> "WAIT_FOR_HEADER1", b |-> 0,
                 state |-> "WAIT_FOR_HEADER1", buffer |-> <<>>,
                 length1 |-> 0, length2 |-> 0, length |-> 0,
                 crc1 |-> 0, crc2 |-> 0, crc |-> 0, checksum |-> 0,
                 imu_data |-> [j \in 1..sizeofHipNucIMU |-> 0],
                 wrong_frames |-> 0, right_frames |-> 0,
                 pc |-> "read", imu_q |-> <<>>, sends |-> <<>>, lost |-> <<>>,
                 waiting |-> 0,
                 task |-> "xQueueReceive", received |-> <<>>, imu_cnt |-> 0]

\* loop() reads a byte and runs the switch on it; at the end of a frame
\* with the right checksum it stops after xQueueSend
ImuRead ==
    /\ imu.state # "off"
    /\ imu.pc = "read"
    /\ imu.pos < Len(ImuLines[imu.line])
    /\ imu' = parse([imu EXCEPT !.pos = @ + 1, !.was = imu.state,
                                !.b = ImuLines[imu.line][imu.pos + 1]],
                    ImuLines[imu.line][imu.pos + 1])
    /\ UNCHANGED <<rtcm, prev, io, last, nfed, clock, heap, stream, call, sd>>

\* loop() goes on after xQueueSend: right_frames++ and the reset of the
\* parser
ImuCount ==
    /\ imu.state # "off"
    /\ imu.pc = "right_frames++"
    /\ imu' = reset([imu EXCEPT !.right_frames = @ + 1, !.pc = "read"])
    /\ UNCHANGED <<rtcm, prev, io, last, nfed, clock, heap, stream, call, sd>>

\* process_task: xQueueReceive(imu_q,&imu_data,0) takes the item at the
\* front of the queue
TaskReceive ==
    /\ imu.state # "off"
    /\ imu.task = "xQueueReceive"
    /\ imu.imu_q # <<>>
    /\ imu' = [imu EXCEPT !.imu_q = Tail(@), !.received = Append(@, Head(imu.imu_q)),
                          !.task = "imu_cnt++"]
    /\ UNCHANGED <<rtcm, prev, io, last, nfed, clock, heap, stream, call, sd>>

\* process_task: imu_cnt++ and the delay to the next poll
TaskCount ==
    /\ imu.state # "off"
    /\ imu.task = "imu_cnt++"
    /\ imu' = [imu EXCEPT !.imu_cnt = @ + 1, !.task = "xQueueReceive"]
    /\ UNCHANGED <<rtcm, prev, io, last, nfed, clock, heap, stream, call, sd>>

NextImu == ImuRead \/ ImuCount \/ TaskReceive \/ TaskCount

\* the sketch imu_decode: loop() on one core, process_task on the other
SpecImu == InitImu /\ [][NextImu]_vars

(* ------------------------------ record_rtcm ---------------------------- *)

\* reset_state()
reset_state(p) ==
    [p EXCEPT !.state = "WAIT_FOR_HEADER", !.buffer = <<>>, !.len1 = 0,
              !.len2 = 0, !.len = 0, !.crc1 = 0, !.crc2 = 0, !.crc3 = 0]

\* a case READ_LENGTH2 that takes all the bits of the first length byte
length2_wide(p, b) ==
    IF 256 * p.len1 + b + 3 > 1200
    THEN reset_state([p EXCEPT !.len2 = b, !.buffer = Append(@, b),
                               !.len = 256 * p.len1 + b + 3])
    ELSE [p EXCEPT !.len2 = b, !.buffer = Append(@, b),
                   !.len = 256 * p.len1 + b + 3, !.state = "READ_PAYLOAD"]

\* the case READ_LENGTH2 of the switch
length2(p, b) ==
    IF 256 * (p.len1 % 4) + b + 3 > 1200
    THEN reset_state([p EXCEPT !.len2 = b, !.buffer = Append(@, b),
                               !.len = 256 * (p.len1 % 4) + b + 3])
    ELSE [p EXCEPT !.len2 = b, !.buffer = Append(@, b),
                   !.len = 256 * (p.len1 % 4) + b + 3, !.state = "READ_PAYLOAD"]

\* a case READ_CRC3 that writes only the frames whose parity is right
crc3_checked(p, b) ==
    Let3(     Append(p.buffer, b),
              65536 * p.crc1 + 256 * p.crc2 + b,
              rtk_crc24q(p.buffer, p.len),
        LAMBDA buffer, crc_msg, crc :
        reset_state([p EXCEPT !.crc_msg = crc_msg, !.crc = crc,
                              !.file = IF crc = crc_msg
                                       THEN @ \o SubSeq(buffer, 1, p.len + 3)
                                       ELSE @,
                              !.frames = IF crc = crc_msg THEN @ + 1 ELSE @,
                              !.ended = <<[len |-> p.len, read |-> Len(buffer),
                                           good |-> crc = crc_msg]>>]))

\* the case READ_CRC3 of the switch: the parity is compared, the frame is
\* written to the file whatever the parity, and the framer is reset; the
\* lengths, the verdict and the frame are kept in ended for the record
crc3(p, b) ==
    Let3(     Append(p.buffer, b),
              65536 * p.crc1 + 256 * p.crc2 + b,
              rtk_crc24q(p.buffer, p.len),
        LAMBDA buffer, crc_msg, crc :
        reset_state([p EXCEPT !.crc_msg = crc_msg, !.crc = crc,
                              !.file = @ \o SubSeq(buffer, 1, p.len + 3),
                              !.frames = @ + 1,
                              !.ended = <<[len |-> p.len, read |-> Len(buffer),
                                           good |-> crc = crc_msg]>>]))

\* the switch of loop() of the recorder on the byte b read from the
\* serial line
record(p, b) ==
    CASE p.state = "WAIT_FOR_HEADER" ->
           IF b = RTCM3PREAMB
           THEN [p EXCEPT !.state = "READ_LENGTH1", !.buffer = Append(@, b)]
           ELSE p
      [] p.state = "READ_LENGTH1" ->
           [p EXCEPT !.len1 = b, !.buffer = Append(@, b), !.state = "READ_LENGTH2"]
      [] p.state = "READ_LENGTH2" -> length2(p, b)
      [] p.state = "READ_PAYLOAD" ->
           [p EXCEPT !.buffer = Append(@, b),
                     !.state = IF Len(p.buffer) + 1 >= p.len THEN "READ_CRC1" ELSE @]
      [] p.state = "READ_CRC1" ->
           [p EXCEPT !.crc1 = b, !.buffer = Append(@, b), !.state = "READ_CRC2"]
      [] p.state = "READ_CRC2" ->
           [p EXCEPT !.crc2 = b, !.buffer = Append(@, b), !.state = "READ_CRC3"]
      [] p.state = "READ_CRC3" -> crc3(p, b)

\* the longest frame: every bit of the two bytes after the preamble set,
\* a payload of 1023 zero bytes, and its parity
LongFrame ==
    Let(     <<RTCM3PREAMB, 255, 255>> \o [k \in 1..1023 |-> 0],
        LAMBDA b :
        Let( crc24qLoop(b, 0, 1026, 0),
        LAMBDA crc :
       b \o <<crc \div 65536, (crc \div 256) % 256, crc % 256>>))

\* what the receiver line can carry: frames with payloads of 1, 19 and 2
\* bytes; a damaged frame and a whole one; a preamble with a length of 1
\* before three frames; a frame without payload before two frames and
\* between two frames; the longest frame before a frame
SdLines == <<
    Frames["framing"][2] \o Frames["framing"][5] \o Frames["framing"][4],
    Damaged(Frames["framing"][3]) \o Frames["framing"][4],
    <<7, RTCM3PREAMB, 0, 1>> \o Frames["framing"][4] \o Frames["framing"][4]
        \o Frames["framing"][4],
    Frames["framing"][1] \o Frames["framing"][4] \o Frames["framing"][4],
    Frames["framing"][3] \o Frames["framing"][1] \o Frames["framing"][5],
    LongFrame \o Frames["framing"][4] >>

\* after setup() of the recorder and after init_rtcm of a receiver on the
\* same line; bytes is what the line carries and pos the number of bytes
\* of it read so far
InitSd ==
    /\ Aside("record")
    /\ call = NoCall
    /\ imu = NoImu
    /\ Let(SdLines,
           LAMBDA lines :
           \E k \in 1..Len(lines) :
              sd = [line |-> k, bytes |-> lines[k], pos |-> 0,
                    state |-> "WAIT_FOR_HEADER", buffer |-> <<>>, len1 |-> 0,
                    len2 |-> 0, len |-> 0, crc1 |-> 0, crc2 |-> 0, crc3 |-> 0,
                    crc_msg |-> 0, crc |-> 0, frames |-> 0, file |-> <<>>,
                    ended |-> <<>>])

\* a byte of the line is read by loop() of the recorder and handed to
\* input_rtcm3 by the receiver
SdRead ==
    /\ sd.state # "off"
    /\ sd.pos < Len(sd.bytes)
    /\ Let(input_rtcm3(rtcm, sd.bytes[sd.pos + 1]),
           LAMBDA x :
           /\ rtcm' = x.r
           /\ io' = [kind |-> "byte", bytes |-> <<sd.bytes[sd.pos + 1]>>,
                     rets |-> <<x.ret>>, calls |-> x.calls, clock |-> clock])
    /\ prev' = rtcm
    /\ last' = io
    /\ nfed' = nfed + 1
    /\ sd' = record([sd EXCEPT !.pos = @ + 1, !.ended = <<>>],
                    sd.bytes[sd.pos + 1])
    /\ UNCHANGED <<clock, heap, stream, call, imu>>

NextSd == SdRead

\* the recorder and a receiver on the same line
SpecSd == InitSd /\ [][NextSd]_vars

\* the two sketches, each on its own board and line
InitSketches == InitImu \/ InitSd

NextSketches == NextImu \/ NextSd

SpecSketches == InitSketches /\ [][NextSketches]_vars

(* ------------------------------ properties ----------------------------- *)

\* what the last call of input_rtcm3 in the last step returned
lastret == io.rets[Len(io.rets)]

\* payload length, message type and station id written in a frame
plen(fr) == getbitu(fr, 14, 10)

mtype(fr) == getbitu(fr, 24, 12)

fstaid(fr) == getbitu(fr, 36, 12)

\* C1: fed from Idle (nbyte = 0) a frame of preamble, length L, L payload
\* bytes and the CRC-24Q of these L+3 bytes, input_rtcm3 returns 0 on each
\* of the first L+5 bytes, calls the dispatcher exactly once, on byte L+6
\* and with len = L+3, and leaves nbyte = 0
FrameEmitted ==
    (io.kind = "frame" /\ prev.nbyte = 0) =>
        LET L == plen(io.bytes) IN
        /\ Len(io.bytes) = L + 6
        /\ Len(io.rets) = L + 6
        /\ \A k \in 1..(L + 5) : io.rets[k] = 0
        /\ Len(io.calls) = 1
        /\ io.calls[1].len = L + 3
        /\ io.calls[1].nbyte = L + 6
        /\ rtcm.nbyte = 0

\* a station message of 19 payload bytes went from Idle to the dispatcher
FrameEmittedSeen ==
    /\ io.kind = "frame" /\ prev.nbyte = 0 /\ nfed >= 2
    /\ plen(io.bytes) = 19
    /\ Len(io.calls) = 1 /\ io.calls[1].len = 22 /\ lastret = 5
    /\ rtcm.nbyte = 0

\* C2: when the 24-bit trailer of a completed frame differs from
\* rtk_crc24q over its first L+3 bytes, input_rtcm3 returns 0, no decoder
\* runs, nbyte is 0 again and every field of the control record but the
\* frame buffer, nbyte and len is unchanged
ParityMismatch ==
    (/\ io.kind \in {"frame", "damaged"} /\ prev.nbyte = 0
     /\ Len(io.bytes) = plen(io.bytes) + 6
     /\ getbitu(io.bytes, 8 * (plen(io.bytes) + 3), 24)
            # rtk_crc24q(io.bytes, plen(io.bytes) + 3)) =>
        /\ \A k \in 1..Len(io.rets) : io.rets[k] = 0
        /\ io.calls = <<>>
        /\ rtcm.nbyte = 0
        /\ [rtcm EXCEPT !.buff = prev.buff, !.nbyte = prev.nbyte,
                        !.len = prev.len] = prev

\* a station message with a damaged parity was dropped after another
\* station message had been decoded
ParityMismatchSeen ==
    /\ io.kind = "damaged" /\ prev.nbyte = 0 /\ prev.staid = 1
    /\ mtype(io.bytes) = 1005
    /\ getbitu(io.bytes, 8 * (plen(io.bytes) + 3), 24)
           # rtk_crc24q(io.bytes, plen(io.bytes) + 3)
    /\ rtcm.nbyte = 0 /\ rtcm.len = 22 /\ lastret = 0

\* a whole frame was fed from Idle and went to the dispatcher
dispatched == io.kind = "frame" /\ prev.nbyte = 0 /\ Len(io.calls) = 1

\* what the dispatcher returned for it
decoderet == io.calls[1].ret

\* C3: whenever the dispatcher returns -1 for a frame, the epoch time, the
\* observation buffer, the navigation table, the station descriptor, the
\* ssr records and the lock and carrier-phase state are as they were
\* before the frame
ErrorLeavesRecord ==
    (dispatched /\ decoderet = -1) =>
        /\ rtcm.time = prev.time
        /\ rtcm.obs = prev.obs
        /\ rtcm.nav = prev.nav
        /\ rtcm.sta = prev.sta
        /\ rtcm.ssr = prev.ssr
        /\ rtcm.lock = prev.lock
        /\ rtcm.cp = prev.cp

\* an msm message of another station was refused after decode_msm_head
\* had moved the epoch time to the time of the refused message
ErrorMovedTime ==
    /\ dispatched /\ decoderet = -1
    /\ mtype(io.bytes) = 1074 /\ fstaid(io.bytes) = 2
    /\ prev.staid = 1 /\ rtcm.staid = 0
    /\ prev.time.time # 0
    /\ timediff(rtcm.time, prev.time) = 1000
    /\ rtcm.obs = prev.obs

\* message types that carry a station id checked by test_staid, and the
\* bits their decoders need to reach that check
StaidTypes == 1001..1006 \cup 1009..1012 \cup {msmtype[s] + m : s \in DOMAIN msmtype, m \in 3..6}

HeadComplete(fr) ==
    LET type == mtype(fr)
        bits == 8 * (plen(fr) + 3) IN
    CASE type \in 1001..1004 -> 88 <= bits
      [] type \in 1009..1012 -> 85 <= bits
      [] type = 1005 -> bits = 176
      [] type = 1006 -> 192 <= bits
      [] OTHER -> 193 <= bits

obssats(obs) == {obs.data[i].sat : i \in 0..(obs.n - 1)}

\* satellite numbers that obsindex is asked for
AskedSats == 1..12

\* C5: the observation buffer holds at most MAXOBS entries and no two of
\* its first obs.n entries carry the same satellite; obsindex returns the
\* existing entry of a satellite already present and, for another
\* satellite when the buffer is full, -1 without writing
ObsBufferSound ==
    /\ rtcm.obs.n \in 0..MAXOBS
    /\ \A i, j \in 0..(rtcm.obs.n - 1) :
           i # j => rtcm.obs.data[i].sat # rtcm.obs.data[j].sat
    /\ \A sat \in AskedSats :
           LET x == obsindex(rtcm.obs, rtcm.time, sat) IN
           /\ sat \in obssats(rtcm.obs) =>
                  /\ x.obs = rtcm.obs
                  /\ x.index \in 0..(rtcm.obs.n - 1)
                  /\ rtcm.obs.data[x.index].sat = sat
           /\ (sat \notin obssats(rtcm.obs) /\ rtcm.obs.n = MAXOBS) =>
                  x = [obs |-> rtcm.obs, index |-> -1]

\* an msm message with three satellites found two entries of its epoch in
\* the buffer: one of its satellites took the last entry, two were dropped
ObsBufferFull ==
    /\ dispatched /\ mtype(io.bytes) = 1074 /\ decoderet = 0
    /\ prev.obs.n = 2 /\ obssats(prev.obs) = {3, 4}
    /\ rtcm.obs.n = MAXOBS
    /\ Cardinality(obssats(rtcm.obs)) = MAXOBS
    /\ {3, 4} \subseteq obssats(rtcm.obs)

\* C6: all the entries of the observation buffer carry the epoch time of
\* entry 0, whatever the order in which the frames arrive
SameEpoch ==
    \A i \in 0..(rtcm.obs.n - 1) :
        timediff(rtcm.obs.data[i].time, rtcm.obs.data[0].time) = 0

\* a frame of a later epoch replaced a buffer of two satellites by its own
\* satellite
SameEpochSeen ==
    /\ dispatched /\ decoderet \in {0, 1}
    /\ prev.obs.n >= 2 /\ rtcm.obs.n >= 1
    /\ timediff(rtcm.time, prev.time) # 0
    /\ timediff(rtcm.obs.data[0].time, prev.obs.data[0].time) # 0
    /\ \A i \in 0..(rtcm.obs.n - 1) : rtcm.obs.data[i].time = rtcm.time

\* observation message types: legacy 1001-1004 and 1009-1012, msm 1-7
ObsTypes ==
    1001..1004 \cup 1009..1012
    \cup {msmtype[s] + m : s \in DOMAIN msmtype, m \in 0..6}

\* the observation buffer the frame of the last step leaves when it finds
\* the buffer empty
fresh == Feed([prev EXCEPT !.obs.n = 0], io.bytes).r.obs

\* C7: after an observation frame with sync = 0 has been decoded, the
\* next observation frame that stores a satellite (it changes the buffer)
\* clears the buffer first: the buffer then holds the satellites of that
\* frame only, even when both frames carry the same epoch time
SyncClears ==
    (/\ dispatched /\ mtype(io.bytes) \in ObsTypes /\ decoderet \in {0, 1}
     /\ last.kind = "frame" /\ Len(last.calls) = 1
     /\ mtype(last.bytes) \in ObsTypes /\ last.calls[1].ret = 1
     /\ rtcm.obs # prev.obs) =>
        /\ rtcm.obs.n = fresh.n
        /\ obssats(rtcm.obs) = obssats(fresh)

\* a 1002 message with sync = 0 stored satellite 7; the 1004 message of
\* the same epoch that followed added its satellites 3 and 4 to it
SyncMixes ==
    /\ dispatched /\ mtype(io.bytes) = 1004 /\ decoderet = 0
    /\ last.kind = "frame" /\ Len(last.calls) = 1
    /\ mtype(last.bytes) = 1002 /\ last.calls[1].ret = 1
    /\ getbitu(last.bytes, 78, 1) = 0
    /\ prev.obsflag = 0 /\ obssats(prev.obs) = {7}
    /\ timediff(rtcm.time, prev.time) = 0
    /\ obssats(rtcm.obs) = {3, 4, 7}

\* ephemeris message types
EphTypes == {1019, 1020, 1042, 63, 1044, 1045, 1046}

\* satellite number an ephemeris frame is for, 0 when its prn is out of
\* the range of its system
ephsatof(fr) ==
    LET type == mtype(fr) IN
    CASE type = 1019 -> satno("GPS", getbitu(fr, 36, 6))
      [] type = 1020 -> satno("GLO", getbitu(fr, 36, 6))
      [] type = 1044 -> satno("QZS", getbitu(fr, 36, 4) + 192)
      [] type \in {1045, 1046} -> satno("GAL", getbitu(fr, 36, 6))
      [] OTHER -> satno("CMP", getbitu(fr, 36, 6))

\* the frame of the last step is an ephemeris frame with a prn in range
\* and the same frame as the one of the step before
twice ==
    /\ dispatched /\ mtype(io.bytes) \in EphTypes /\ ephsatof(io.bytes) # 0
    /\ last.kind = "frame" /\ Len(last.calls) = 1 /\ last.bytes = io.bytes

fiode(fr) ==
    LET type == mtype(fr) IN
    CASE type = 1019 -> getbitu(fr, 72, 8)
      [] type = 1044 -> getbitu(fr, 102, 8)
      [] type \in {1045, 1046} -> getbitu(fr, 54, 10)
      [] OTHER -> getbitu(fr, 73, 5)

IodcTypes == {1019, 1044, 1042, 63}

fiodc(fr) ==
    LET type == mtype(fr) IN
    CASE type = 1019 -> getbitu(fr, 142, 10)
      [] type = 1044 -> getbitu(fr, 498, 10)
      [] OTHER -> getbitu(fr, 152, 5)

\* the stored ephemeris of the satellite of frame fr in record r
slot(r, fr) == Get(r.nav.eph, ephsatof(fr), eph0)

\* C9: an ephemeris frame with a prn in range replaces the stored slot of
\* its satellite, sets ephsat and returns 2 whenever -EPHALL is set or
\* its IODE, or its IODC where the message has one, differs from the
\* stored slot
EphReplaces ==
    (/\ dispatched /\ mtype(io.bytes) \in EphTypes \ {1020}
     /\ ephsatof(io.bytes) # 0
     /\ \/ prev.opt.EPHALL
        \/ fiode(io.bytes) # slot(prev, io.bytes).iode
        \/ /\ mtype(io.bytes) \in IodcTypes
           /\ fiodc(io.bytes) # slot(prev, io.bytes).iodc) =>
        /\ decoderet = 2
        /\ rtcm.ephsat = ephsatof(io.bytes)
        /\ slot(rtcm, io.bytes).sat = ephsatof(io.bytes)
        /\ slot(rtcm, io.bytes).iode = fiode(io.bytes)
        /\ mtype(io.bytes) \in IodcTypes =>
               slot(rtcm, io.bytes).iodc = fiodc(io.bytes)

\* a gps ephemeris with IODE 10 and IODC 266 was dropped because the slot
\* held IODE 10 with IODC 10
EphKeptOld ==
    /\ dispatched /\ mtype(io.bytes) = 1019 /\ ephsatof(io.bytes) = 3
    /\ ~prev.opt.EPHALL
    /\ fiode(io.bytes) = 10 /\ fiodc(io.bytes) = 266
    /\ slot(prev, io.bytes).iode = 10 /\ slot(prev, io.bytes).iodc = 10
    /\ decoderet = 0
    /\ slot(rtcm, io.bytes).iodc = 10

\* station message types and ssr message types
StaTypes == {1005, 1006, 1007, 1008, 1033}

SsrTypes == {ssrtype[s] + k : s \in DOMAIN ssrtype, k \in 0..5}

\* C10: every call of input_rtcm3 returns -1, 0, 1, 2, 5 or 10; 1 only
\* for observation messages, 2 only for ephemeris messages, 5 only for
\* station messages and 10 only for ssr messages
ReturnValues ==
    /\ \A k \in 1..Len(io.rets) :
           /\ io.rets[k] \in {-1, 0, 1, 2, 5, 10}
           /\ io.rets[k] # 0 =>
                  \E c \in 1..Len(io.calls) : io.calls[c].ret = io.rets[k]
    /\ \A c \in 1..Len(io.calls) :
           /\ io.calls[c].ret = 1 => io.calls[c].type \in ObsTypes
           /\ io.calls[c].ret = 2 => io.calls[c].type \in EphTypes
           /\ io.calls[c].ret = 5 => io.calls[c].type \in StaTypes
           /\ io.calls[c].ret = 10 => io.calls[c].type \in SsrTypes

\* an ssr message returned 10 after a station message had returned 5
ReturnValuesSeen ==
    /\ dispatched /\ lastret = 10 /\ mtype(io.bytes) = 1057
    /\ last.kind = "frame" /\ last.rets[Len(last.rets)] = 5

\* C11: whenever input_rtcm3 returns 1 the observation buffer holds the
\* epoch just completed: it is not empty and the time of every entry is
\* the current epoch time of the control record
ObsReady ==
    (Len(io.rets) > 0 /\ lastret = 1) =>
        /\ rtcm.obs.n >= 1
        /\ \A i \in 0..(rtcm.obs.n - 1) :
               timediff(rtcm.obs.data[i].time, rtcm.time) = 0

\* a 1001 message with sync = 0 returned 1 on a record that had stored no
\* observation
ObsReadyEmpty ==
    /\ dispatched /\ mtype(io.bytes) = 1001 /\ getbitu(io.bytes, 78, 1) = 0
    /\ lastret = 1
    /\ prev.obs.n = 0 /\ rtcm.obs.n = 0
    /\ rtcm.obsflag = 1 /\ rtcm.time.time # 0

\* msm 1-3 message types, and the types the decoder does not support
Msm123Types == {msmtype[s] + m : s \in DOMAIN msmtype, m \in 0..2}

PlainUnsupported ==
    {1013, 1230} \cup 1021..1027 \cup 1030..1032 \cup 1034..1039

\* the frame of the last step was counted under index k and changed
\* nothing else than that counter and the frame buffer
onlycounted(k) ==
    /\ rtcm.nmsg3 = Put(prev.nmsg3, k, Get(prev.nmsg3, k, 0) + 1, 0)
    /\ [rtcm EXCEPT !.nmsg3 = prev.nmsg3, !.buff = prev.buff,
                    !.len = prev.len, !.nbyte = prev.nbyte] = prev

msgindex(type) == IF 1001 <= type /\ type <= 1299 THEN type - 1000 ELSE 0

\* the table nmsg3 with the counter of the frame of the last step one
\* higher
countedin(tab) ==
    Put(tab, msgindex(io.calls[1].type),
        Get(tab, msgindex(io.calls[1].type), 0) + 1, 0)

\* C13 as stated: every dispatched frame increments exactly one counter,
\* nmsg3[type-1000] for 1001 <= type <= 1299 and nmsg3[0] otherwise, so
\* that the counters add up to the number of frames dispatched
EveryFrameCounted ==
    /\ DOMAIN rtcm.nmsg3 \subseteq 0..299
    /\ dispatched => rtcm.nmsg3 = countedin(prev.nmsg3)

\* C13: a dispatched frame whose decoder returns 0 or more increments
\* exactly that counter, a frame whose decoder returns -1 and bytes that
\* complete no frame increment none, and the index is within 0..299: the
\* counters add up to the number of frames decoded without error
FrameCounted ==
    /\ DOMAIN rtcm.nmsg3 \subseteq 0..299
    /\ (dispatched /\ decoderet >= 0) => rtcm.nmsg3 = countedin(prev.nmsg3)
    /\ (dispatched /\ decoderet < 0) => rtcm.nmsg3 = prev.nmsg3
    /\ io.calls = <<>> => rtcm.nmsg3 = prev.nmsg3

\* a frame of type 4001 was counted in nmsg3[0] after a frame with a
\* message error had been left out of the count
FrameCountedSeen ==
    /\ dispatched /\ mtype(io.bytes) = 4001 /\ decoderet = 0
    /\ last.kind = "frame" /\ Len(last.calls) = 1 /\ last.calls[1].ret = -1
    /\ prev.nmsg3 = <<>>
    /\ DOMAIN rtcm.nmsg3 = {0} /\ rtcm.nmsg3[0] = 1

\* the frame without payload: D3 00 00 and the CRC-24Q of these bytes
EmptyFrame == <<211, 0, 0, 71, 234, 75>>

\* the record of the step before is as init_rtcm left it
fresh_before == prev = [init_rtcm EXCEPT !.opt = prev.opt]

\* C14: fed to a freshly initialised record, the frame without payload
\* makes input_rtcm3 return 0 on every byte, runs no decoder and leaves
\* the counters nmsg3 unchanged
EmptyFrameIgnored ==
    (io.kind = "frame" /\ io.bytes = EmptyFrame /\ fresh_before) =>
        /\ Len(io.rets) = 6 /\ \A k \in 1..6 : io.rets[k] = 0
        /\ rtcm.nmsg3 = prev.nmsg3
        /\ [rtcm EXCEPT !.buff = prev.buff, !.len = prev.len] = prev

\* the frame without payload went to the dispatcher, which read the type
\* 1150 in the parity bytes and counted the frame in nmsg3[150]
EmptyFrameCounted ==
    /\ io.kind = "frame" /\ io.bytes = EmptyFrame /\ fresh_before
    /\ rtk_crc24q(EmptyFrame, 3) = getbitu(EmptyFrame, 24, 24)
    /\ \A k \in 1..6 : io.rets[k] = 0
    /\ Len(io.calls) = 1 /\ io.calls[1].len = 3 /\ io.calls[1].type = 1150
    /\ prev.nmsg3 = <<>> /\ rtcm.nmsg3 = (150 :> 1)

\* bits that a frame of type 1002, 1004, 1010 or gps ssr 1 needs for the
\* satellites its header announces
needbits(fr) ==
    LET type == mtype(fr) IN
    CASE type = 1002 -> 88 + 74 * getbitu(fr, 79, 5)
      [] type = 1004 -> 88 + 125 * getbitu(fr, 79, 5)
      [] type = 1010 -> 85 + 79 * getbitu(fr, 76, 5)
      [] OTHER -> 92 + 135 * getbitu(fr, 86, 6)

\* the frame is shorter than the content it declares
tooshort(fr) ==
    /\ mtype(fr) \in {1002, 1004, 1010, 1057}
    /\ needbits(fr) > 8 * (plen(fr) + 3)

\* C15: a frame shorter than the content it declares returns -1 and
\* stores none of its data
ShortFrameRefused ==
    (dispatched /\ tooshort(io.bytes)) =>
        /\ decoderet = -1
        /\ rtcm.obs = prev.obs
        /\ rtcm.ssr = prev.ssr

\* a 1004 message that announces two satellites and carries one returned
\* 1 and stored the one it carries
ShortFrameStored ==
    /\ dispatched /\ mtype(io.bytes) = 1004 /\ tooshort(io.bytes)
    /\ getbitu(io.bytes, 79, 5) = 2 /\ plen(io.bytes) = 24
    /\ decoderet = 1
    /\ prev.obs.n = 0 /\ rtcm.obs.n = 1 /\ rtcm.obs.data[0].sat = 4

\* the msm message types and the system of each
MsmTypes == {msmtype[s] + m : s \in DOMAIN msmtype, m \in 0..6}

msmsys(type) == CHOOSE s \in DOMAIN msmtype : type - msmtype[s] \in 0..6

\* the control record the decoder of a dispatched frame is called with
\* (without -RT_INP)
atdecode == [prev EXCEPT !.buff = rtcm.buff, !.len = rtcm.len]

\* what decode_msm_head makes of a dispatched msm frame
msmhead_at == decode_msm_head(atdecode, msmsys(mtype(io.bytes)))

\* number of bits set among the n mask bits from bit pos on
maskbits(fr, pos, n) ==
    Cardinality({j \in 1..n : getbitu(fr, pos + j - 1, 1) = 1})

\* nsat * nsig of a frame: satellite mask at bit 97, signal mask at bit 161
ncells(fr) == maskbits(fr, 97, 64) * maskbits(fr, 161, 32)

\* the header decoder left without a cell-mask bit read and with -1
NoCellRead(h) == h.ncell = -1 /\ DOMAIN h.cellmask = {} /\ decoderet = -1

\* the header decoder read exactly the n cell-mask bits from bit 193 on
\* and counted the set ones
CellsRead(h, n) ==
    /\ DOMAIN h.cellmask = 1..n
    /\ n <= 64
    /\ \A j \in 1..n : h.cellmask[j] = getbitu(io.bytes, 193 + j - 1, 1)
    /\ h.ncell = maskbits(io.bytes, 193, n)
    /\ h.i = 193 + n

\* C16 as stated: for every msm frame with nsat * nsig > 64 the header
\* decoder returns -1 without reading a cell-mask bit, and for every other
\* msm frame it reads exactly nsat * nsig cell-mask bits and returns the
\* number of set ones
CellMaskAlways ==
    (dispatched /\ mtype(io.bytes) \in MsmTypes) =>
        IF ncells(io.bytes) > 64 THEN NoCellRead(msmhead_at)
        ELSE CellsRead(msmhead_at, ncells(io.bytes))

\* C16: for every msm frame with a complete header (193 bits) and an
\* accepted station id: with nsat * nsig > 64, or with fewer than
\* nsat * nsig bits left in the frame for the cell mask, the header decoder
\* returns -1 without reading a cell-mask bit; otherwise it reads exactly
\* nsat * nsig cell-mask bits into indices 0..nsat*nsig-1, never beyond 63,
\* and returns the number of set ones. With an incomplete header or a
\* refused station id it returns -1 without reading a cell-mask bit
CellMask ==
    (dispatched /\ mtype(io.bytes) \in MsmTypes) =>
        IF \/ 8 * (plen(io.bytes) + 3) < 193
           \/ test_staid(atdecode, fstaid(io.bytes)).ret = 0
           \/ ncells(io.bytes) > 64
           \/ 193 + ncells(io.bytes) > 8 * (plen(io.bytes) + 3)
        THEN NoCellRead(msmhead_at)
        ELSE CellsRead(msmhead_at, ncells(io.bytes))

\* an msm frame of 8 satellites and 8 signals is decoded: 64 cell-mask
\* bits read, two of them set
CellMaskSeen ==
    /\ dispatched
    /\ mtype(io.bytes) \in MsmTypes
    /\ ncells(io.bytes) = 64
    /\ msmhead_at.ncell = 2
    /\ DOMAIN msmhead_at.cellmask = 1..64

\* the signals of a dispatched msm frame as save_msm_obs takes them from
\* the signal mask: ids, codes, bands
fsigs == maskids(io.bytes, 161, 32)

codesof(sys, sigs) ==
    SubSeq([k \in 1..Len(sigs) |-> obs2code(msm_sig[sys][sigs[k]])[1]],
           1, Len(sigs))

bandsof(sys, sigs) ==
    SubSeq([k \in 1..Len(sigs) |->
               LET f == obs2code(msm_sig[sys][sigs[k]])[2] IN
               IF sys = "CMP" /\ f = 5 THEN 2
               ELSE IF sys = "CMP" /\ f = 4 THEN 3 ELSE f],
           1, Len(sigs))

\* code priority of each known signal, 0 for the others
prisof(sys, code, opt) ==
    SubSeq([k \in 1..Len(code) |->
               IF code[k] = 0 THEN 0 ELSE getcodepri(sys, code[k], opt)],
           1, Len(code))

\* the main slots go by priority, the other known signals take the
\* extended slots in mask order while there are some, no slot is given twice
SlotsRule(code, freq, pri, slots) ==
    LET known == {i \in 1..Len(code) : code[i] # 0}
        band(f) == {i \in known : freq[i] = f /\ pri[i] > 0}
        best(f) ==
            CHOOSE i \in band(f) :
                \A j \in band(f) : pri[i] > pri[j] \/ (pri[i] = pri[j] /\ i <= j)
        main == {best(f) : f \in {g \in 1..NFREQ : band(g) # {}}}
        extra == known \ main
    IN  /\ \A i \in main : slots[i] = freq[i] - 1
        /\ \A i \in extra :
               LET before == Cardinality({j \in extra : j < i}) IN
               slots[i] = IF before < NEXOBS THEN NFREQ + before ELSE -1
        /\ \A i, j \in 1..Len(code) :
               (i # j /\ slots[i] >= 0) => slots[i] # slots[j]

\* the band 1 signals are 1C and 1W
Has1C1W(code, freq) ==
    {code[i] : i \in {j \in 1..Len(code) : code[j] # 0 /\ freq[j] = 1}}
        = {obs2code("1C")[1], obs2code("1W")[1]}

\* 1C has slot 0 and 1W an extended slot
Main1C(code, slots) ==
    \A i \in 1..Len(code) :
        /\ code[i] = obs2code("1C")[1] => slots[i] = 0
        /\ code[i] = obs2code("1W")[1] => slots[i] >= NFREQ

\* the rule for the signals sigs of system sys under the options opt;
\* with always, 1C and 1W are to go to slot 0 and an extended slot
\* whatever the options
SlotsOf(sys, code, freq, opt, always) ==
    /\ SlotsRule(code, freq, prisof(sys, code, opt),
                 sigindex(sys, code, freq, opt))
    /\ (/\ sys = "GPS"
        /\ Has1C1W(code, freq)
        /\ \/ always
           \/ \A k \in 1..Len(opt.codes) :
                  ~(opt.codes[k].sys = "GPS" /\ opt.codes[k].str[1] = "1"))
       => Main1C(code, sigindex(sys, code, freq, opt))

SlotsOfFrame(sys, sigs, always) ==
    SlotsOf(sys, codesof(sys, sigs), bandsof(sys, sigs), prev.opt, always)

\* C17 as stated: within one msm frame the main slot of each band up to
\* NFREQ goes to the known signal of the band with the highest non-zero
\* priority, the other known signals take the extended slots in mask order
\* and are dropped when these are used up, no slot is given twice, and GPS
\* 1C and 1W together always put 1C in slot 0 and 1W in an extended slot
SlotsAlways ==
    (dispatched /\ mtype(io.bytes) \in MsmTypes) =>
        SlotsOfFrame(msmsys(mtype(io.bytes)), fsigs, TRUE)

\* C17: the same, with 1C in slot 0 and 1W in an extended slot when no
\* -GL1x option changes the priorities of GPS band 1
Slots ==
    (dispatched /\ mtype(io.bytes) \in MsmTypes) =>
        SlotsOfFrame(msmsys(mtype(io.bytes)), fsigs, FALSE)

\* an msm 4 frame of GPS with 1C and 1W was saved under the default
\* priorities: 1C in slot 0, 1W in the first extended slot
SlotsSeen ==
    /\ dispatched
    /\ mtype(io.bytes) = 1074
    /\ decoderet >= 0
    /\ prev.opt.codes = <<>>
    /\ Has1C1W(codesof("GPS", fsigs), bandsof("GPS", fsigs))
    /\ \E d \in 0..(rtcm.obs.n - 1) :
           /\ rtcm.obs.data[d].code[0] = obs2code("1C")[1]
           /\ rtcm.obs.data[d].code[NFREQ] = obs2code("1W")[1]

\* the code options of the system with the band digit of the code
pritokens(sys, code, opt) ==
    {k \in 1..Len(opt.codes) :
        opt.codes[k].sys = sys /\ opt.codes[k].str[1] = obsband[code + 1]}

\* what the code option k makes of the code: 15 for the code it names, 0
\* for the other codes of the band
tokenpri(code, opt, k) ==
    IF opt.codes[k].str = <<obsband[code + 1], obsattr[code + 1]>> THEN 15 ELSE 0

\* 14 minus the position (from 0) of the attribute letter of the code in
\* the priority string of its system and band, 0 without the letter
tablepri(sys, code) ==
    LET row == codepris[sys][obsfreqs[code + 1]]
        at == {k \in 1..Len(row) : row[k] = obsattr[code + 1]}
    IN  IF at = {} THEN 0 ELSE 14 - ((CHOOSE k \in at : TRUE) - 1)

\* the systems a satellite can be of; LEO has no code priorities
PriSystems == DOMAIN PRNRANGE

\* C18 as stated: getcodepri returns a value in 0..15; every code option
\* of the system with the band digit of the code gives 15 to the code it
\* names and 0 to the other codes of the band; without such an option the
\* priority is 14 minus the position of the attribute letter in the
\* priority string, 0 without the letter
PriorityAlways ==
    \A sys \in PriSystems, code \in 1..MAXCODE :
        /\ getcodepri(sys, code, rtcm.opt) \in 0..15
        /\ sys \in DOMAIN codepris =>
              IF pritokens(sys, code, rtcm.opt) # {}
              THEN \A k \in pritokens(sys, code, rtcm.opt) :
                      getcodepri(sys, code, rtcm.opt) = tokenpri(code, rtcm.opt, k)
              ELSE getcodepri(sys, code, rtcm.opt) = tablepri(sys, code)

\* C18: getcodepri returns a value in 0..15, 0 for a system without code
\* priorities; the first code option of the system with the band digit of
\* the code decides: 15 for the code it names and 0 for the other codes of
\* the band (all of them when the option names no attribute letter);
\* without such an option the priority is 14 minus the position of the
\* attribute letter in the priority string, 0 without the letter
Priority ==
    \A sys \in PriSystems, code \in 1..MAXCODE :
        /\ getcodepri(sys, code, rtcm.opt) \in 0..15
        /\ getcodepri(sys, code, rtcm.opt) =
              IF sys \notin DOMAIN codepris THEN 0
              ELSE IF pritokens(sys, code, rtcm.opt) # {}
              THEN tokenpri(code, rtcm.opt, least(pritokens(sys, code, rtcm.opt)))
              ELSE tablepri(sys, code)

\* under -GL1W -GL1C an msm 4 frame of GPS with 1C and 1W was saved: 1W,
\* of priority 15, has the main slot and 1C, of priority 0, has not
PrioritySeen ==
    /\ dispatched
    /\ mtype(io.bytes) = 1074
    /\ decoderet >= 0
    /\ Len(prev.opt.codes) = 2
    /\ getcodepri("GPS", obs2code("1W")[1], prev.opt) = 15
    /\ getcodepri("GPS", obs2code("1C")[1], prev.opt) = 0
    /\ \E d \in 0..(rtcm.obs.n - 1) :
           rtcm.obs.data[d].code[0] = obs2code("1W")[1]

\* bit i (from the most significant bit of byte 0) of a byte sequence
bitat(buff, i) == (buff[i \div 8 + 1] \div Pow2(7 - (i % 8))) % 2

\* the unsigned int d is below 2^len
fits(d, len) == low32(d, len) = d

\* the unsigned int d below 2^len read as a two's-complement number of
\* len bits
twos(d, len) ==
    IF bit32(d, len - 1) = 0 THEN 65536 * d[1] + d[2]
    ELSE IF len = 32 THEN (d[1] - 65536) * 65536 + d[2]
    ELSE (65536 * d[1] + d[2] - Pow2(len - 1)) - Pow2(len - 1)

\* C21: for every bit position, every len in 1..32 and every v < 2^len,
\* setbitu(buf,pos,len,v) followed by getbitu(buf,pos,len) yields v and
\* getbits(buf,pos,len) yields v read as a two's-complement number of len
\* bits, and setbitu changes no bit of the buffer outside [pos, pos+len)
RoundTrip ==
    /\ call.fn \in {"setbitu", "setgetbitu"} /\ call.len \in 1..32 =>
          /\ Len(call.buff) = Len(call.old)
          /\ \A i \in 0..(8 * Len(call.old) - 1) :
                i < call.pos \/ i >= call.pos + call.len =>
                    bitat(call.buff, i) = bitat(call.old, i)
    /\ call.fn = "setgetbitu" /\ call.len \in 1..32 /\ fits(call.data, call.len) =>
          /\ call.bitu = call.data
          /\ call.bits = twos(call.data, call.len)

\* a field of 32 bits with its top bit set was written over other bits at
\* a position within a byte and read back
RoundTripSeen ==
    /\ call.fn = "setgetbitu"
    /\ call.len = 32
    /\ call.pos = 5
    /\ call.data = <<43690, 21845>>
    /\ call.old = <<255, 255, 255, 255, 255, 255>>
    /\ call.bits < 0
    /\ call.buff # call.old

\* C22: getbitu and getbits return 0 for every length out of range
\* (len <= 0 or len > 32), whatever the buffer contents and bit position
OutOfRangeZero ==
    call.fn \in {"getbitu", "setgetbitu"} /\ (call.len <= 0 \/ call.len > 32) =>
        call.bitu = <<0, 0>> /\ call.bits = 0

\* a field of 33 bits was read from a buffer of ones: getbitu returned
\* 2^32 - 1 and getbits -1
OutOfRangeRead ==
    /\ call.fn = "getbitu"
    /\ call.len = 33
    /\ call.buff = <<255, 255, 255, 255, 255, 255>>
    /\ call.bitu = <<65535, 65535>>
    /\ call.bits = -1

\* CRC-24Q register after one more message bit m: the register is shifted
\* by one bit and the generator 0x1864CFB is subtracted when the bit
\* shifted out and m differ
serialbit(crc, m) ==
    IF ((crc \div 8388608) + m) % 2 = 1
    THEN Xor24(2 * (crc % 8388608), 25578747 - 16777216)
    ELSE 2 * (crc % 8388608)

\* CRC-24Q register after the bits i..end-1 of the byte sequence, most
\* significant bit of each byte first
RECURSIVE serialcrc(_, _, _, _)
serialcrc(b, i, end, crc) ==
    IF i >= end THEN crc
    ELSE IF end = i + 1 THEN serialbit(crc, bitat(b, i))
    ELSE Let(serialcrc(b, i, (i + end) \div 2, crc),
             LAMBDA c : Then(c, serialcrc(b, (i + end) \div 2, end, c)))

\* C23: for every byte string the table-driven rtk_crc24q returns a value
\* below 2^24 that equals the bit-serial CRC-24Q of the string (generator
\* 0x1864CFB, initial value 0, most significant bit first, no final xor)
TableIsSerial ==
    call.fn = "rtk_crc24q" =>
        /\ call.crc \in 0..16777215
        /\ call.crc = serialcrc(call.buff, 0, 8 * call.len, 0)

\* the parity of a whole 1005 frame without its trailer was computed and
\* is the trailer of the frame
TableIsSerialSeen ==
    /\ call.fn = "rtk_crc24q"
    /\ call.len = 22
    /\ Len(call.buff) = 25
    /\ call.crc # 0
    /\ call.crc = 65536 * call.buff[23] + 256 * call.buff[24] + call.buff[25]

\* t1 - t2 in ms, for times less than 2000000 s apart
msbetween(t1, t2) == (t1.time - t2.time) * 1000 + t1.sec - t2.sec

\* the epoch buffered before the call was set
epochset == prev.time.time # 0

\* seconds from the gps time origin to the whole second of t
gpssec(t) == t.time - epoch2time(gpst0).time

\* the gps week the instant t lies in and its time of week in ms, the
\* weeks counted from the gps time origin in both directions
weekof(t) ==
    (gpssec(t) \div 604800) + (((gpssec(t) % 604800) * 1000 + t.sec) \div 604800000)

towof(t) == ((gpssec(t) % 604800) * 1000 + t.sec) % 604800000

\* what one call of adjweek has to make of the buffered epoch: the time of
\* week of the new epoch is tow and the new epoch is within half a week of
\* the old one
Resolved ==
    /\ towof(rtcm.time) = call.tow
    /\ msbetween(rtcm.time, prev.time) \in -302400000..302400000

\* C24 as stated: when the buffered epoch is set, adjweek applied to a
\* time of week in [0, 604800) s yields an epoch whose time of week is tow
\* and which lies within 302400 s of the buffered epoch
RolloverAlways ==
    call.fn = "adjweek" /\ epochset => Resolved

\* C24: the same, for a buffered epoch not before the gps time origin of
\* 1980-01-06 (before it time2gpst gives a negative time of week); after
\* an epoch of time of week 100 s, 604700 s resolves to the week before
Rollover ==
    /\ call.fn = "adjweek" /\ epochset /\ gpssec(prev.time) >= 0 => Resolved
    /\ /\ call.fn = "adjweek"
       /\ epochset /\ gpssec(prev.time) >= 0
       /\ towof(prev.time) = 100000
       /\ call.tow = 604700000
       => weekof(rtcm.time) = weekof(prev.time) - 1

\* with the host clock at 2020-06-01 a time of week of 100 s was resolved
\* to week 2108, and 604700 s after it to week 2107
RolloverSeen ==
    /\ call.fn = "adjweek"
    /\ clock[1] = 2020
    /\ time2gpst(prev.time) = <<2108, 100000>>
    /\ call.tow = 604700000
    /\ time2gpst(rtcm.time) = <<2107, 604700000>>

\* the week of the host clock in gps time and in beidou time, raised to
\* 1560 and to 1 when the clock is earlier
hostgpsweek ==
    IF time2gpst(utc2gpst(timeget))[1] < 1560 THEN 1560
    ELSE time2gpst(utc2gpst(timeget))[1]

hostbdtweek ==
    IF time2bdt(gpst2bdt(utc2gpst(timeget)))[1] < 1 THEN 1
    ELSE time2bdt(gpst2bdt(utc2gpst(timeget)))[1]

\* the adjusted week is the decoded one moved by whole periods of 1024
\* weeks
samephase(out, week) == (out - week) % 1024 = 0

\* C25 as stated: for every decoded week number (10 bits for gps and qzss,
\* 13 bits for beidou) and every host week w the adjusted week is congruent
\* to the decoded week modulo 1024 and lies within 512 weeks of w
WeekNearHostAlways ==
    /\ call.fn = "adjgpsweek" =>
          /\ samephase(call.out, call.week)
          /\ call.out - hostgpsweek \in -512..512
    /\ call.fn = "adjbdtweek" =>
          /\ samephase(call.out, call.week)
          /\ call.out - hostbdtweek \in -512..512

\* C25: the same for a decoded week of at most w + 512, which every 10-bit
\* gps week is; a 13-bit beidou week above w + 512 is moved down by whole
\* periods to a week between w + 512 and w + 1535
WeekNearHost ==
    /\ call.fn = "adjgpsweek" =>
          /\ samephase(call.out, call.week)
          /\ call.out - hostgpsweek \in -511..512
    /\ call.fn = "adjbdtweek" =>
          /\ samephase(call.out, call.week)
          /\ call.week <= hostbdtweek + 512 =>
                call.out - hostbdtweek \in -511..512
          /\ call.week > hostbdtweek + 512 =>
                call.out - hostbdtweek \in 512..1535

\* with the host clock in beidou week 752 the decoded week 100 was
\* adjusted to 1124, and with the clock not set the gps week 1023 was
\* adjusted to 2047
WeekNearHostSeen ==
    \/ /\ call.fn = "adjbdtweek"
       /\ clock[1] = 2020
       /\ hostbdtweek = 752
       /\ call.week = 100
       /\ call.out = 1124
    \/ /\ call.fn = "adjgpsweek"
       /\ clock[1] = 1970
       /\ hostgpsweek = 1560
       /\ call.week = 1023
       /\ call.out = 2047

\* the lock time indicator stored for a satellite and a frequency slot
stored(r, sat, freq) == IF <<sat, freq>> \in DOMAIN r.lock THEN r.lock[<<sat, freq>>] ELSE 0

\* C26: for each pair of a satellite and a frequency slot lossoflock
\* returns 1 exactly when the new lock indicator is lower than the one
\* stored by the previous call for the pair or both are 0, stores the new
\* indicator on every call and changes the stored indicator of no other
\* pair
LockLoss ==
    call.fn = "lossoflock" =>
        /\ call.lli = IF \/ call.lock < stored(prev, call.sat, call.freq)
                         \/ call.lock = 0 /\ stored(prev, call.sat, call.freq) = 0
                      THEN 1 ELSE 0
        /\ stored(rtcm, call.sat, call.freq) = call.lock
        /\ \A sat \in LockSats, freq \in LockFreqs :
              <<sat, freq>> # <<call.sat, call.freq>> =>
                  stored(rtcm, sat, freq) = stored(prev, sat, freq)

\* a lock indicator of 1 came after one of 5 for the same pair while
\* another slot of the satellite held 127: loss reported, 127 kept
LockLossSeen ==
    /\ call.fn = "lossoflock"
    /\ call.sat = MAXSAT /\ call.freq = 0
    /\ stored(prev, MAXSAT, 0) = 5
    /\ call.lock = 1
    /\ call.lli = 1
    /\ stored(rtcm, MAXSAT, NFREQ + NEXOBS - 1) = 127

\* C27: in WAIT_FOR_HEADER2 any byte other than 0xA5, 0x5A included, is
\* dropped and sends the parser back to WAIT_FOR_HEADER1 without being
\* looked at as a first header byte: in 5A 5A A5 ... the second 5A starts
\* no frame, and a well-formed frame that follows a stray 0x5A is not
\* recognised
StrayHeader ==
    imu.state # "off" =>
        /\ imu.was = "WAIT_FOR_HEADER2" /\ imu.b # FRAME_HEAD2 =>
              imu.state = "WAIT_FOR_HEADER1" /\ imu.buffer = <<>>
        /\ imu.line = 1 /\ imu.pos <= 1 + IMU_DATA_LENGTH =>
              /\ imu.right_frames + imu.wrong_frames = 0
              /\ imu.pc = "read"
              /\ imu.pos >= 2 => imu.state = "WAIT_FOR_HEADER1"

\* the line 5A 5A A5 ... was read to the end of its first frame, which
\* was not recognised
StrayHeaderSeen ==
    /\ imu.state = "WAIT_FOR_HEADER1"
    /\ imu.line = 1
    /\ imu.pos = 1 + IMU_DATA_LENGTH
    /\ SubSeq(ImuLines[1], 1, 3) = <<FRAME_HEAD1, FRAME_HEAD1, FRAME_HEAD2>>
    /\ imu.right_frames = 0
    /\ imu.imu_q = <<>>

\* the timestamps of the frames of each sensor line that are well formed,
\* whole and not damaged
ImuGood == << {1, 2}, {1}, {1}, {2}, (1..MaxImuFrames) \ {3} >>

\* the items are structs the sensor sent in well-formed frames, in the
\* order of their timestamps, none of them twice
sentinorder(items) ==
    /\ \A k \in 1..Len(items) :
          \E t \in ImuGood[imu.line] : items[k] = ImuData(t)
    /\ \A k \in 1..(Len(items) - 1) : items[k][9] < items[k + 1][9]

\* the item is one of the sequence
among(item, items) == \E k \in 1..Len(items) : items[k] = item

\* what holds of the queue between loop() and process_task whatever the
\* counters are: the task receives frames that loop() sent after a good
\* checksum, in their order and once; of the frames sent, the ones not
\* received or waiting are the ones that found QueueLength items waiting,
\* and they are counted in right_frames as the others
QueueRule ==
    /\ sentinorder(imu.sends)
    /\ imu.received \o imu.imu_q = SelectSeq(imu.sends, LAMBDA x : ~among(x, imu.lost))
    /\ Len(imu.imu_q) <= QueueLength
    /\ imu.pc = "right_frames++" =>
          /\ imu.sends # <<>>
          /\ imu.waiting = QueueLength <=> among(imu.sends[Len(imu.sends)], imu.lost)
          /\ ENABLED ImuCount
    /\ imu.right_frames = Len(imu.sends) - (IF imu.pc = "right_frames++" THEN 1 ELSE 0)
    /\ imu.imu_cnt = Len(imu.received) - (IF imu.task = "imu_cnt++" THEN 1 ELSE 0)

\* C29 as stated: every frame process_task receives is a frame with a good
\* checksum that loop() sent, the frames are received in the order sent and
\* never twice, imu_cnt never exceeds right_frames, and a frame with a good
\* checksum is lost exactly when the queue is full at the send, which does
\* not block and after which right_frames is incremented all the same
QueueAlways ==
    imu.state # "off" => QueueRule /\ imu.imu_cnt <= imu.right_frames

\* C29: the same with imu_cnt never above the number of frames sent, which
\* is right_frames + 1 between xQueueSend and right_frames++
Queue ==
    imu.state # "off" =>
        /\ QueueRule
        /\ imu.imu_cnt <= imu.right_frames + (IF imu.pc = "right_frames++" THEN 1 ELSE 0)

\* the eleventh good frame found ten items waiting and was lost, and was
\* counted in right_frames
QueueSeen ==
    /\ imu.state # "off"
    /\ imu.pc = "read"
    /\ imu.right_frames = QueueLength + 1
    /\ Len(imu.imu_q) = QueueLength
    /\ Len(imu.lost) = 1
    /\ imu.wrong_frames = 1
    /\ imu.imu_cnt = 0

\* input_rtcm3 completed a frame on the last byte: it had bytes of a frame
\* and has none now
framed == prev.nbyte > 0 /\ rtcm.nbyte = 0

\* C28: on every byte stream the framer of the recorder and input_rtcm3
\* recognise the same frames: both start a frame at the same 0xD3 byte,
\* take the same declared payload length L and return to waiting for the
\* preamble after exactly L+6 bytes of the frame, with the same verdict
\* on its parity
SameFrames ==
    sd.state # "off" =>
        /\ sd.state = "WAIT_FOR_HEADER" <=> rtcm.nbyte = 0
        /\ Len(sd.buffer) = rtcm.nbyte
        /\ rtcm.nbyte >= 3 => sd.len = rtcm.len
        /\ framed <=> sd.ended # <<>>
        /\ sd.ended # <<>> =>
              /\ sd.ended[1].len = rtcm.len
              /\ sd.ended[1].read = sd.ended[1].len + 3
              /\ sd.ended[1].good <=> io.calls # <<>>

\* after the six bytes of a frame without payload input_rtcm3 waits for
\* the next preamble while the recorder has stored the parity as payload
\* and waits for three more bytes
EmptyFrameSplit ==
    /\ sd.state = "READ_CRC3"
    /\ sd.line = 4
    /\ sd.pos = 6
    /\ sd.len = 3
    /\ framed
    /\ io.calls # <<>>
    /\ rtcm.len = 3

\* message number 4-7 of a dispatched msm frame whose header and length
\* let save_msm_obs run
msmsaved ==
    /\ dispatched
    /\ mtype(io.bytes) \in MsmTypes
    /\ mtype(io.bytes) - msmtype[msmsys(mtype(io.bytes))] >= 3
    /\ decoderet >= 0

\* the slots save_msm_obs gives to the signals of a dispatched msm frame
msmind ==
    sigindex(msmsys(mtype(io.bytes)),
             codesof(msmsys(mtype(io.bytes)), msmhead_at.sigs),
             bandsof(msmsys(mtype(io.bytes)), msmhead_at.sigs), prev.opt)

\* satellite number of satellite i of a dispatched msm frame
msmsat(i) ==
    LET sys == msmsys(mtype(io.bytes)) IN
    satno(sys, msmhead_at.sats[i]
               + (IF sys \in {"QZS", "SBS"} THEN PRNRANGE[sys][1] - 1 ELSE 0))

\* the cells of a dispatched msm frame that save_msm_obs stores, each
\* with its satellite, its slot, the indices of obs data that hold the
\* satellite, and the lock time and half-cycle indicators of the cell
msmstored ==
    LET h == msmhead_at
        nsig == Len(h.sigs)
        m == mtype(io.bytes) - msmtype[msmsys(mtype(io.bytes))] + 1
    IN  { [sat |-> msmsat(i), q |-> msmind[k],
           at |-> {x \in 0..rtcm.obs.n - 1 : rtcm.obs.data[x].sat = msmsat(i)},
           cell |-> msm_cell(atdecode, m, h,
                             Cardinality({c \in 1..(i - 1) * nsig + k - 1 :
                                             h.cellmask[c] # 0}))] :
          <<i, k>> \in {x \in (1..Len(h.sats)) \X (1..nsig) :
                           /\ h.cellmask[x[2] + (x[1] - 1) * nsig] # 0
                           /\ msmsat(x[1]) # 0
                           /\ msmind[x[2]] >= 0} }

\* what lossoflock reports for a stored cell: the lock table before the
\* frame holds the lock time of the cell before this one
lossof(c) ==
    LET old == Get(prev.lock, <<c.sat, c.q>>, 0) IN
    IF (c.cell.lock = 0 /\ old = 0) \/ c.cell.lock < old THEN 1 ELSE 0

\* a | b for a in 0..1 and b in {0, 3}
or3(a, b) == IF b = 3 THEN 3 ELSE a

\* C30: for every msm cell that is stored, the LLI written is
\* lossoflock(sat, slot, lock) bitwise-or (3 if the half-cycle flag of the
\* cell is set, else 0), so bit 0 of the stored LLI is set whenever
\* lossoflock reports a loss, also with the half-cycle flag set
LliOr ==
    msmsaved =>
        \A c \in msmstored : \A x \in c.at :
            /\ rtcm.obs.data[x].LLI[c.q]
                   = or3(lossof(c), IF c.cell.half # 0 THEN 3 ELSE 0)
            /\ lossof(c) = 1 => rtcm.obs.data[x].LLI[c.q] % 2 = 1

\* a cell with the half-cycle flag set and a lock time of 0 on a fresh
\* lock table is stored: lossoflock reports a loss and the LLI written is
\* 1 + 3 = 4, bit 0 clear
LliSum ==
    /\ msmsaved
    /\ \E c \in msmstored : \E x \in c.at :
          /\ c.cell.half # 0
          /\ lossof(c) = 1
          /\ rtcm.obs.data[x].LLI[c.q] = 4

\* C19: in every reachable state of the framer the frame length len is at
\* most 1026 (payload at most 1023 bytes) and between calls
\* 0 <= nbyte <= 1028, so no byte is stored beyond index 1028 of the frame
\* buffer, whatever bytes are fed
FrameBound ==
    /\ rtcm.len <= 1026
    /\ rtcm.nbyte \in 0..1028
    /\ Len(rtcm.buff) <= 1029

\* the last byte of a frame with a declared payload of 1023 bytes has
\* been stored at index 1028 and the frame is complete
FrameBoundSeen ==
    /\ sd.state # "off"
    /\ prev.nbyte = 1028
    /\ rtcm.nbyte = 0
    /\ rtcm.len = 1026
    /\ Len(rtcm.buff) = 1029
    /\ rtcm.buff[2] = 255
    /\ io.calls # <<>>

\* the string fields of the station parameters
StaStrings == {"antdes", "antsno", "rectype", "recver", "recsno"}

\* a descriptor message has been decoded and stored
described ==
    dispatched /\ mtype(io.bytes) \in {1007, 1008, 1033} /\ decoderet = 5

\* C20: for messages 1007, 1008 and 1033, whatever length a descriptor
\* declares, the decoder stores at most 31 characters of it followed by a
\* terminator and writes no byte of the destination field beyond index 31
StringBound ==
    \A f \in StaStrings :
        /\ Len(cstring(rtcm.sta[f])) <= 31
        /\ Len(cstring(rtcm.sta[f])) < Len(rtcm.sta[f])
        /\ Len(rtcm.sta[f]) <= 32

\* a 1007 message with a descriptor of 40 characters is stored: 31
\* characters are kept and the bytes at indices 31 to 40 of the field are
\* written with zeros
StringPadded ==
    /\ described
    /\ mtype(io.bytes) = 1007
    /\ getbitu(io.bytes, 48, 8) = 40
    /\ Len(prev.sta.antdes) <= 32
    /\ Len(cstring(rtcm.sta.antdes)) = 31
    /\ Len(rtcm.sta.antdes) = 41

\* the frame before the last one reached test_staid with a station id
\* other than 0 on a receiver without the -STA= option and was refused
\* there: the station id was reset to 0
refused ==
    /\ last.kind = "frame" /\ Len(last.calls) = 1
    /\ mtype(last.bytes) \in StaidTypes
    /\ HeadComplete(last.bytes)
    /\ fstaid(last.bytes) # 0
    /\ last.calls[1].ret = -1
    /\ prev.staid = 0
    /\ prev.opt.STA = <<>>

\* the frame passed the station id test and its id is the session's
adopted ==
    /\ test_staid(atdecode, fstaid(io.bytes)).ret = 1
    /\ rtcm.staid = fstaid(io.bytes)

biased ==
    /\ dispatched /\ mtype(io.bytes) = ssrtype["GPS"] + 2
    /\ decoderet \in {0, 10}
    /\ getbitu(io.bytes, 85, 6) = 1
    /\ getbitu(io.bytes, 97, 5) = 1
    /\ satno("GPS", getbitu(io.bytes, 91, 6)) # 0

biasmode == getbitu(io.bytes, 102, 5)

biasof(r) == ssrat(r, satno("GPS", getbitu(io.bytes, 91, 6))).cbias

\* C32: a bias whose tracking mode is not an index of the mode table of
\* its constellation (17 entries for gps) is skipped: the table is not
\* read outside its entries and no code bias is written for that mode
ModeSkipped ==
    (biased /\ biasmode >= Len(codes_gps)) =>
        \A c \in DOMAIN biasof(rtcm) : biasof(rtcm)[c] = 0

\* a bias with mode 17 is taken: the element behind the 17 entries of
\* codes_gps is read, the memory there holds 1, and the bias is stored as
\* the bias of code 1
ModeBehindTable ==
    /\ biased
    /\ biasmode = Len(codes_gps)
    /\ heap = 1
    /\ getbits(io.bytes, 107, 14) = -5
    /\ biasof(rtcm)[0] = -5

\* message number (4-7) of a dispatched msm frame
msmno == mtype(io.bytes) - msmtype[msmsys(mtype(io.bytes))] + 1

\* the set bits of the cell mask of a dispatched msm frame in
\* satellite-major order: satellite i and signal k (from 1), the number j
\* of set bits before it, the satellite number, the slot of the signal
\* and the indices of obs data that hold the satellite
msmcells ==
    LET h == msmhead_at
        nsig == Len(h.sigs)
    IN  { [i |-> x[1], k |-> x[2],
           j |-> Cardinality({c \in 1..(x[1] - 1) * nsig + x[2] - 1 :
                                 h.cellmask[c] # 0}),
           sat |-> msmsat(x[1]), q |-> msmind[x[2]],
           at |-> {e \in 0..rtcm.obs.n - 1 : rtcm.obs.data[e].sat = msmsat(x[1])}] :
          x \in {y \in (1..Len(h.sats)) \X (1..nsig) :
                    h.cellmask[y[2] + (y[1] - 1) * nsig] # 0} }

\* the cell is one that save_msm_obs leaves out: its satellite has no
\* satellite number or its signal no slot
leftout(c) == c.sat = 0 \/ c.q < 0

\* the entry e of obs data holds, in the slot of the cell c, the data of
\* record c.j of the per-cell data and of satellite c.i of the satellite
\* data
holdscell(e, c) ==
    LET sys == msmsys(mtype(io.bytes))
        s == msm_sat(atdecode, msmno, msmhead_at, c.i - 1)
        v == msm_cell(atdecode, msmno, msmhead_at, c.j)
        f == bandsof(sys, msmhead_at.sigs)[c.k]
        wl == IF sys = "GLO" /\ msmfmt[msmno].ext /\ s.ex <= 13
              THEN freq_glo(f, s.ex - 7)
              ELSE satwavelen(c.sat, f - 1, prev.nav)
        d == rtcm.obs.data[e]
    IN  /\ (s.r # 0 /\ v.prok) => d.P[c.q] = [u |-> v.pr, amb |-> s.r]
        /\ (s.r # 0 /\ v.cpok /\ wl > 0) =>
               d.L[c.q] = [u |-> v.cp, amb |-> s.r, cp |-> 0]
        /\ d.SNR[c.q] = (v.cnr \div 4) % 256
        /\ d.code[c.q] = codesof(sys, msmhead_at.sigs)[c.k]

\* C33: the k-th set bit of the cell mask, in satellite-major order,
\* takes the k-th record of the per-cell data: a satellite with a prn out
\* of range, a signal id without a table entry or a signal without a slot
\* has only its own cells left out, and the cells of the other satellites
\* and signals are stored with their own data
CellOrder ==
    msmsaved =>
        \A c \in msmcells :
            ~leftout(c) => \A e \in c.at : holdscell(e, c)

\* a frame of three satellites and four signals: the first signal has no
\* table entry, the fourth gets no slot and the third satellite has no
\* satellite number; the second and third signals of the second satellite
\* are stored with the sixth and seventh record of the per-cell data
CellOrderSeen ==
    /\ msmsaved
    /\ Cardinality(msmcells) = 12
    /\ \E c \in msmcells : c.i = 1 /\ c.k = 1 /\ c.sat # 0 /\ c.q < 0
    /\ \E c \in msmcells : c.i = 1 /\ c.k = 4 /\ c.sat # 0 /\ c.q < 0
    /\ \E c \in msmcells : c.i = 3 /\ c.sat = 0
    /\ \E c \in msmcells :
          /\ c.i = 2 /\ c.k = 3 /\ c.j = 6 /\ ~leftout(c) /\ c.at # {}
          /\ msm_cell(atdecode, msmno, msmhead_at, c.j).lock = 7
          /\ \A e \in c.at : rtcm.obs.data[e].L[c.q].u = 4 * (10 + 7)

\* the legacy observation messages with satellite data: where the
\* satellite data of each start, how long they are, where the number of
\* satellites is, and the constellation of the message
legacyfmt == [t \in {1002, 1004, 1010, 1012} |->
                 [base |-> IF t < 1009 THEN 88 ELSE 85,
                  bits |-> CASE t = 1002 -> 74 [] t = 1004 -> 125
                             [] t = 1010 -> 79 [] OTHER -> 130,
                  nsat |-> IF t < 1009 THEN 79 ELSE 76,
                  sys  |-> IF t < 1009 THEN "GPS" ELSE "GLO"]]

\* a legacy observation message has been decoded whole into an empty
\* observation buffer
legacysaved ==
    /\ dispatched /\ mtype(io.bytes) \in DOMAIN legacyfmt
    /\ decoderet \in {0, 1}
    /\ prev.obs.n = 0 \/ prev.obsflag # 0
    /\ getbitu(io.bytes, legacyfmt[mtype(io.bytes)].nsat, 5) <= MAXOBS
    /\ legacyfmt[mtype(io.bytes)].base
         + getbitu(io.bytes, legacyfmt[mtype(io.bytes)].nsat, 5)
           * legacyfmt[mtype(io.bytes)].bits <= 8 * (plen(io.bytes) + 3)

\* the prn fields of the satellites of the message
legacyprns ==
    LET f == legacyfmt[mtype(io.bytes)] IN
    {getbitu(io.bytes, f.base + f.bits * j, 6) :
         j \in 0..(getbitu(io.bytes, f.nsat, 5) - 1)}

\* C34: in the legacy observation messages of the gps family (1002, 1004)
\* and of the glonass family (1010, 1012) a satellite with a prn field of
\* 40 or more is stored as the sbas satellite of prn field + 80, and one
\* with a prn field below 40 under the constellation of the message
SbasPrn ==
    legacysaved =>
        \A prn \in legacyprns :
            /\ prn >= 40 => satno("SBS", prn + 80) \in obssats(rtcm.obs)
            /\ prn < 40 =>
                  satno(legacyfmt[mtype(io.bytes)].sys, prn) \in obssats(rtcm.obs)

\* a 1010 message with the prn fields 2 and 41 is decoded: glonass 2 is
\* stored and nothing is stored for the field 41
SbasDropped ==
    /\ legacysaved
    /\ mtype(io.bytes) = 1010
    /\ legacyprns = {2, 41}
    /\ obssats(rtcm.obs) = {satno("GLO", 2)}
    /\ rtcm.obs.n = 1

\* the calls of adjcp before call k for the same satellite and frequency
cpbefore(k) ==
    {j \in 1..(k - 1) : /\ call.hist[j].sat = call.hist[k].sat
                        /\ call.hist[j].freq = call.hist[k].freq}

\* the value the preceding call for the pair of call k returned
cpprev(k) ==
    call.hist[CHOOSE j \in cpbefore(k) : \A i \in cpbefore(k) : i <= j].out

\* what the rollover rule gives for cp after p
rolled(cp, p) ==
    IF cp < p - 750000 THEN cp + 1500000
    ELSE IF cp > p + 750000 THEN cp - 1500000
    ELSE cp

\* C35: the first call of adjcp for a satellite and frequency returns cp
\* unchanged, every later call cp moved by 1500 cycles towards the value
\* the preceding call returned, whatever that value was, 0 included, and
\* the value returned is the one stored
CpRollover ==
    call.fn = "adjcp" =>
        /\ \A k \in 1..Len(call.hist) :
              call.hist[k].out =
                  IF cpbefore(k) = {} THEN call.hist[k].cp
                  ELSE rolled(call.hist[k].cp, cpprev(k))
        /\ Get(rtcm.cp, <<call.hist[Len(call.hist)].sat,
                          call.hist[Len(call.hist)].freq>>, 0)
             = call.hist[Len(call.hist)].out

\* after a call that returned exactly 0, the phase 800 of the same
\* satellite and frequency comes back unchanged
CpAfterZero ==
    /\ call.fn = "adjcp"
    /\ Len(call.hist) = 2
    /\ call.hist[1] = [sat |-> 1, freq |-> 0, cp |-> 0, out |-> 0]
    /\ call.hist[2] = [sat |-> 1, freq |-> 0, cp |-> 800000, out |-> 800000]
    /\ Get(rtcm.cp, <<1, 0>>, 0) = 800000

\* loop() takes the byte that makes the 82 bytes of a candidate frame
\* complete
imulast ==
    /\ imu.state = "READ_PAYLOAD"
    /\ imu.pc = "read"
    /\ Len(imu.buffer) = IMU_DATA_LENGTH - 1
    /\ imu'.pos = imu.pos + 1

\* the 82 bytes of the candidate frame that imulast completes
imuframe == Append(imu.buffer, imu'.b)

\* the crc-16 of polynomial 0x1021 and initial value 0 over the bytes 0..3
\* and 6..81 of the frame is the little-endian value in its bytes 4..5
imugood(fr) ==
    crc16_update(crc16_update(0, fr, 1, 5), fr, 7, 83) = fr[5] + 256 * fr[6]

\* the parser waits for the first header byte with an empty buffer
imuidle(p) == p.state = "WAIT_FOR_HEADER1" /\ p.buffer = <<>> /\ p.pc = "read"

\* C36: when the 82 bytes of a candidate frame (5A A5, length 76) are
\* collected exactly one of right_frames and wrong_frames is incremented,
\* right_frames exactly when the crc-16 (polynomial 0x1021, initial value
\* 0) over the bytes 0..3 and 6..81 is the little-endian value in the
\* bytes 4..5, and the parser is back in WAIT_FOR_HEADER1 with buf_index
\* 0; a candidate with a length other than 76 is given up after its
\* fourth byte and counted in neither
ImuFrameCounted ==
    [][/\ imulast =>
            /\ SubSeq(imuframe, 1, 4) = <<90, 165, 76, 0>>
            /\ IF imugood(imuframe)
               THEN /\ imu'.pc = "right_frames++"
                    /\ imu'.wrong_frames = imu.wrong_frames
                    /\ imu'.right_frames = imu.right_frames
               ELSE /\ imu'.wrong_frames = imu.wrong_frames + 1
                    /\ imu'.right_frames = imu.right_frames
                    /\ imuidle(imu')
       /\ (imu.state # "off" /\ imu.pc = "right_frames++" /\ imu'.pc # imu.pc) =>
            /\ imu'.right_frames = imu.right_frames + 1
            /\ imu'.wrong_frames = imu.wrong_frames
            /\ imuidle(imu')
       /\ (imu.state # "off" /\ ~imulast /\ imu.pc = imu'.pc) =>
            /\ imu'.right_frames = imu.right_frames
            /\ imu'.wrong_frames = imu.wrong_frames
       /\ (/\ imu.state = "READ_LENGTH2" /\ imu'.pos = imu.pos + 1
           /\ imu.length1 + 256 * imu'.b # 76) =>
            /\ Len(imu.buffer) = 3
            /\ imuidle(imu')
       /\ crc16_update(0, <<49, 50, 51, 52, 53, 54, 55, 56, 57>>, 1, 10) = 12739
      ]_vars

\* a frame with a damaged byte and a frame with the right checksum have
\* been read: one frame counted as wrong, one as right, the parser at the
\* start of a frame
ImuFrameCountedSeen ==
    /\ imu.state # "off"
    /\ imu.line = 4
    /\ imu.pos = 2 * IMU_DATA_LENGTH
    /\ imuidle(imu)
    /\ imu.wrong_frames = 1
    /\ imu.right_frames = 1
    /\ imu.was = "READ_PAYLOAD"

\* C37: the recorder writes every completed frame, len+3 bytes of its
\* buffer, to the file, increments the frame counter and returns to
\* WAIT_FOR_HEADER whether the CRC-24Q of the frame is right or not; the
\* file and the counter change at no other byte
WriteWhatever ==
    [][sd.state # "off" =>
          IF sd.state = "READ_CRC3"
          THEN /\ sd'.file = sd.file
                      \o SubSeq(Append(sd.buffer, sd.bytes[sd.pos + 1]), 1, sd.len + 3)
               /\ Len(sd'.file) = Len(sd.file) + sd.len + 3
               /\ sd'.frames = sd.frames + 1
               /\ sd'.state = "WAIT_FOR_HEADER"
               /\ sd'.buffer = <<>>
          ELSE /\ sd'.file = sd.file
               /\ sd'.frames = sd.frames
      ]_vars

\* a frame with a damaged byte has been read to its end: its parity is
\* wrong, and its bytes are in the file as the first frame
WrittenDamaged ==
    /\ sd.state = "WAIT_FOR_HEADER"
    /\ sd.line = 2
    /\ sd.ended # <<>>
    /\ sd.crc # sd.crc_msg
    /\ rtk_crc24q(sd.file, Len(sd.file) - 3)
         # 65536 * sd.file[Len(sd.file) - 2] + 256 * sd.file[Len(sd.file) - 1]
             + sd.file[Len(sd.file)]
    /\ sd.frames = 1
    /\ sd.file = SubSeq(sd.bytes, 1, sd.pos)
    /\ Len(sd.file) = sd.ended[1].len + 3

\* C38: in the parsers of both sketches the buffer index stays inside the
\* buffer: in the imu parser buf_index <= 82 and every byte is stored at
\* an index <= 81 of the buffer of 100 bytes; in the recorder len <= 1026,
\* buf_index <= 1029 and every byte is stored at an index <= 1028 of the
\* buffer of 1200 bytes, and whatever the second length byte is the
\* branch len > 1200 is not taken
IndexBound ==
    /\ imu.state # "off" =>
          /\ Len(imu.buffer) <= 82
          /\ imu.pc = "read" => Len(imu.buffer) <= 81
    /\ sd.state # "off" =>
          /\ sd.len <= 1026
          /\ Len(sd.buffer) <= 1028
          /\ sd.ended # <<>> => sd.ended[1].read <= 1029 /\ sd.ended[1].len <= 1026
          /\ sd.state = "READ_LENGTH2" =>
                \A b \in {0, 1, 254, 255} :
                    /\ length2(sd, b).state = "READ_PAYLOAD"
                    /\ length2(sd, b).len <= 1026

\* the recorder has stored the last byte of the longest frame at index
\* 1028
IndexBoundSeen ==
    /\ sd.state = "WAIT_FOR_HEADER"
    /\ sd.ended # <<>>
    /\ sd.ended[1].read = 1029
    /\ sd.ended[1].len = 1026
    /\ prev.len = 1026
    /\ Len(sd.file) = 1029

\* the imu parser has stored the last byte of a frame at index 81
IndexBoundImu ==
    /\ imu.state # "off"
    /\ Len(imu.buffer) = 82
    /\ imu.pc = "right_frames++"

\* the stored ephemeris of the satellite of the frame of the last step
ephstored ==
    IF mtype(io.bytes) = 1020
    THEN /\ getbitu(io.bytes, 36, 6) \in DOMAIN rtcm.nav.geph
         /\ rtcm.nav.geph[getbitu(io.bytes, 36, 6)].sat = ephsatof(io.bytes)
    ELSE /\ ephsatof(io.bytes) \in DOMAIN rtcm.nav.eph
         /\ slot(rtcm, io.bytes).sat = ephsatof(io.bytes)
         /\ slot(rtcm, io.bytes).iode = fiode(io.bytes)

\* C39: the first ephemeris frame with a prn in range after init_rtcm
\* (types 1019, 1020, 1042/63, 1044, 1045, 1046) is stored and returns 2,
\* with and without -EPHALL, whatever issue of data and toe it carries
FirstEphStored ==
    (/\ dispatched /\ mtype(io.bytes) \in EphTypes
     /\ ephsatof(io.bytes) # 0
     /\ fresh_before) =>
        /\ decoderet = 2
        /\ rtcm.ephsat = ephsatof(io.bytes)
        /\ ephstored

\* the first frame after init_rtcm is a glonass ephemeris of a healthy
\* satellite with tb = 12, read while the host clock shows the first
\* seconds of 1970: the decoder returns 0 and stores nothing
FirstEphDropped ==
    /\ dispatched /\ mtype(io.bytes) = 1020
    /\ ephsatof(io.bytes) # 0
    /\ fresh_before
    /\ ~prev.opt.EPHALL
    /\ io.clock = <<1970, 1, 1, 0, 0, 5>>
    /\ getbitu(io.bytes, 65, 7) = 12 /\ getbitu(io.bytes, 63, 1) = 0
    /\ decoderet = 0
    /\ rtcm.nav.geph = prev.nav.geph
    /\ rtcm.ephsat = 0

\* C40: every entry of the six msm signal tables that is not empty is a
\* code string that obs2code resolves to a known observation code (not
\* CODE_NONE) with a frequency band in 1..6
SigKnown ==
    (call.fn = "obs2code" /\ call.obs # "") =>
        /\ call.code \in 1..MAXCODE
        /\ call.freq \in 1..6

\* signal id 18 of galileo, "8I", is no string of obscodes: obs2code
\* gives CODE_NONE and band 0
SigUnknown ==
    /\ call.fn = "obs2code"
    /\ call.sys = "GAL" /\ call.sig = 18
    /\ call.obs = "8I"
    /\ call.code = 0
    /\ call.freq = 0

====
